---------------------------- MODULE Spec2Model ----------------------------
(***************************************************************************)
(* NyxDocs: documentation discovery and change detection.                  *)
(*                                                                         *)
(* The module holds four state machines over one set of variables:         *)
(*   SpecClassify  the adapters' can_scrape predicates on URL strings      *)
(*   SpecFetch     one retried outbound call (tenacity around              *)
(*                 BaseScraper.fetch_content / BaseCollector.make_request) *)
(*   SpecPool      concurrent scrapes on the scrapers' HTTP clients        *)
(*   Spec          discovery runs over a project and the update records    *)
(* A specification leaves the variables of the other machines at rest.     *)
(***************************************************************************)
EXTENDS Naturals, Integers, Sequences, FiniteSets, TLC

VARIABLES
    \* --- SpecClassify
    cUrl,           \* the URL string under classification
    cPc,            \* "input" | "classified"
    cGithub,        \* result of GitHubScraper.can_scrape(cUrl)
    cWeb,           \* result of WebScraper.can_scrape(cUrl)
    \* --- SpecFetch
    client,         \* self.client is not None
    fKind,          \* "scraper" (fetch_content) | "collector" (make_request)
    fPc,            \* "idle" | "attempt" | "sleep" | "returned" | "raised"
    fAttempt,       \* tenacity's attempt_number
    fOutcomes,      \* outcome of every attempt made so far, in order
    fRequests,      \* responses of the client.get calls issued so far
    fWaits,         \* the backoff waits slept so far
    fError,         \* the exception the caller sees, NoError if none
    \* --- SpecPool
    max_concurrent_scrapes,  \* Settings.max_concurrent_scrapes
    toRequest,      \* scrape calls not yet made
    inFlight,       \* per scraper: requests holding a connection
    poolWaiting,    \* per scraper: requests waiting for a connection
    \* --- Spec (discovery runs)
    project,        \* the project's known URLs
    runPc,          \* "idle" | "discovering" | "fetching" | "done" | "raised"
    runNo,          \* number of runs started
    adapters,       \* the (adapter, url) pairs selected for this run
    discovered,     \* candidates as returned by the adapters, merged
    candidates,     \* candidates surviving deduplication, not yet fetched
    fetches,        \* URLs of the scrape calls of this run, in order
    outcomes,       \* the ScrapeOutcomes of this run
    documents,      \* store: the Document rows
    updateRecords,  \* store: the UpdateRecord rows, in insertion order
    runBase,        \* number of UpdateRecord rows when this run started
    \* --- SpecClean
    nContent,       \* the text given to clean_content
    nMax,           \* Settings.max_content_length
    nPc,            \* "input" | "once" | "twice"
    nOnce,          \* clean_content(nContent)
    nTwice,         \* clean_content(nOnce)
    \* --- SpecDiscover
    dAdapter,       \* "GitHub" | "Web": the scraper whose discover_docs runs
    dUrl,           \* project_url
    dWorld,         \* what the network answers during the call
    dPc,            \* "try" | "readme" | "docs_dir" | "wiki" | "subdomains"
                    \* | "returned" | "raised"
    dDocs,          \* docs, the list discover_docs builds
    dProbes,        \* the requests issued so far, in order: <<strategy, target>>
    dRan,           \* the strategies run so far, each with what it returned
    \* --- SpecRate
    rWho,           \* "coingecko" | "github": collect_projects; "readme":
                    \* GitHubScraper._find_readme_files
    rLimit,         \* the limit argument of collect_projects
    rPc,            \* "loop" | "request" | "backoff" | "rate_limit" | "returned"
    rIter,          \* the page, query or readme name the loop is at
    rAttempt,       \* tenacity's attempt_number inside make_request
    rProjects,      \* len(projects)
    rNow,           \* the clock, in seconds
    rCalls,         \* the requests sent so far: [source, at]
    \* --- SpecPersist (the store is documents and updateRecords above)
    pPc,            \* "idle" | "open" | "doc_written" | "record_written"
    pJob,           \* the scrape outcome being persisted: [url, old_hash, new_hash]
    pTx,            \* the session's uncommitted view of the store
    pLeftAt,        \* where the last session left without commit was left
    \* --- SpecTool
    tParams,        \* SearchProjectsParams: [blockchain, category]
    tPc,            \* "called" | "answered"
    tAnswer,        \* what search_crypto_projects answers
    \* --- one call of a function: SpecTitle, SpecLinks, SpecSubdomains,
    \*     SpecRoute, SpecCollect
    callArgs,       \* the arguments and what the servers answer
    callPc,         \* "called" | "loop" | "returned"
    callResult,     \* the value returned, or the locals of the loop
    \* --- SpecLifecycle: one scraper or collector object
    lClient,        \* self.client: 0 for None, else the client's number
    lOpen,          \* the clients created and not yet closed
    lCreated,       \* how many clients were created
    lPc,            \* "out" | "body": outside or inside `async with`
    lCalls,         \* the calls made on the object, in order
    \* --- SpecSession: DatabaseManager.get_session
    session_factory, \* self.session_factory is set
    sPc,            \* "idle" | "body"
    sOpen,          \* the sessions open
    sCalls,         \* how many times get_session was called
    sEvents         \* what the manager and its sessions did, in order

classifyVars == <<cUrl, cPc, cGithub, cWeb>>
fetchVars == <<client, fKind, fPc, fAttempt, fOutcomes, fRequests, fWaits, fError>>
poolVars == <<max_concurrent_scrapes, toRequest, inFlight, poolWaiting>>
runVars == <<project, runPc, runNo, adapters, discovered, candidates, fetches,
             outcomes, documents, updateRecords, runBase>>
cleanVars == <<nContent, nMax, nPc, nOnce, nTwice>>
discoverVars == <<dAdapter, dUrl, dWorld, dPc, dDocs, dProbes, dRan>>
rateVars == <<rWho, rLimit, rPc, rIter, rAttempt, rProjects, rNow, rCalls>>
persistVars == <<pPc, pJob, pTx, pLeftAt>>
toolVars == <<tParams, tPc, tAnswer>>
callVars == <<callArgs, callPc, callResult>>
lifeVars == <<lClient, lOpen, lCreated, lPc, lCalls>>
sessVars == <<session_factory, sPc, sOpen, sCalls, sEvents>>
unitVars == <<callVars, lifeVars, sessVars>>
baseVars == <<classifyVars, fetchVars, poolVars, runVars>>
laterVars == <<cleanVars, discoverVars, rateVars, persistVars, toolVars>>
restVars == <<cleanVars, discoverVars, rateVars, persistVars, toolVars, unitVars>>
vars == <<classifyVars, fetchVars, poolVars, runVars, restVars>>

None == "None"

(***************************************************************************)
(* URL strings.  A URL is a sequence of tokens; each token stands for the  *)
(* run of characters it spells: a scheme with its "://", a host label, a   *)
(* registered domain, the "." between host labels, the "/" of a path, a    *)
(* path segment.  Python's `in`, `startswith`, `split` and `strip` are     *)
(* evaluated on the tokens.                                                *)
(***************************************************************************)
MaxUrlLen == 3

SchemeTokens == {"http://", "https://", "ftp://"}
HostTokens == {"github.com", "example.com"}
PathTokens == {"/", "acme"}
UrlTokens == SchemeTokens \cup HostTokens \cup PathTokens

\* the tokens whose characters contain the substring "github.com"
\* ("githubusercontent.com" does not)
HasGithubCom(tok) == tok = "github.com"

\* "github.com" in url
ContainsGithubCom(url) == \E i \in 1..Len(url) : HasGithubCom(url[i])

\* url.startswith(("http://", "https://"))
StartsWithHttp(url) == Len(url) >= 1 /\ url[1] \in {"http://", "https://"}

GitHubScraper_can_scrape(url) == ContainsGithubCom(url)

WebScraper_can_scrape_noGithubTest(url) == StartsWithHttp(url)

WebScraper_can_scrape(url) == StartsWithHttp(url) /\ ~ContainsGithubCom(url)

\* the non-empty URL strings of up to MaxUrlLen tokens
UrlStrings == UNION {[1..n -> UrlTokens] : n \in 1..MaxUrlLen}

ClassifyIdle ==
    /\ cUrl = <<>>
    /\ cPc = "off"
    /\ cGithub = FALSE
    /\ cWeb = FALSE

ClassifyInit ==
    /\ cUrl \in UrlStrings
    /\ cPc = "input"
    /\ cGithub = FALSE
    /\ cWeb = FALSE

Classify ==
    /\ cPc = "input"
    /\ cGithub' = GitHubScraper_can_scrape(cUrl)
    /\ cWeb' = WebScraper_can_scrape(cUrl)
    /\ cPc' = "classified"
    /\ UNCHANGED <<cUrl, fetchVars, poolVars, runVars, restVars>>


(***************************************************************************)
(* The retried outbound call.  fetch_content and make_request carry        *)
(* @retry(stop=stop_after_attempt(3), wait=wait_exponential(...)) with no  *)
(* `retry=` and no `reraise=`: every Exception of the body is retried, and *)
(* when the stop condition is met tenacity raises RetryError around the    *)
(* last exception.                                                         *)
(***************************************************************************)
Kinds == {"scraper", "collector"}

\* what client.get can answer
Responses == {"ok", "http404", "http429", "http500", "timeout", "malformed"}

\* the statuses response.raise_for_status() raises HTTPStatusError for
ErrorStatus(resp) == resp \in {"http404", "http429", "http500"}

\* One execution of the decorated body: the exception it raises, or "ok".
\* fetch_content returns response.text; make_request returns response.json().
\* a body without `if not self.client: raise RuntimeError(...)`
AttemptResult_noStartTest(kind, started, resp) ==
    IF resp = "timeout" THEN "RequestError"
    ELSE IF ErrorStatus(resp) THEN "HTTPStatusError"
    ELSE IF resp = "malformed" /\ kind = "collector" THEN "JSONDecodeError"
    ELSE "ok"

AttemptResult(kind, started, resp) ==
    IF ~started THEN "RuntimeError"
    ELSE IF resp = "timeout" THEN "RequestError"
    ELSE IF ErrorStatus(resp) THEN "HTTPStatusError"
    ELSE IF resp = "malformed" /\ kind = "collector" THEN "JSONDecodeError"
    ELSE "ok"

\* stop_after_attempt(3)
StopAttempts == 3

stop_after_attempt_late(attempt_number) == attempt_number >= StopAttempts + 1

stop_after_attempt(attempt_number) == attempt_number >= StopAttempts

\* tenacity's default retry predicate, retry_if_exception_type(Exception)
retry_if_exception(exc) == exc # "ok"

Pow2(n) == IF n = 0 THEN 1 ELSE IF n = 1 THEN 2 ELSE IF n = 2 THEN 4 ELSE 8

Min2(a, b) == IF a <= b THEN a ELSE b
Max2(a, b) == IF a >= b THEN a ELSE b

\* wait_exponential(multiplier=1, min=2, max=8) on the scrapers,
\* wait_exponential(multiplier=1, min=4, max=10) on the collectors
WaitMin(kind) == IF kind = "scraper" THEN 2 ELSE 4
WaitMax(kind) == IF kind = "scraper" THEN 8 ELSE 10

wait_exponential(kind, attempt_number) ==
    Max2(Max2(0, WaitMin(kind)), Min2(1 * Pow2(attempt_number - 1), WaitMax(kind)))

NoError == [type |-> "None", last |-> "None"]

FetchIdle ==
    /\ client = FALSE
    /\ fKind = "scraper"
    /\ fPc = "off"
    /\ fAttempt = 0
    /\ fOutcomes = <<>>
    /\ fRequests = <<>>
    /\ fWaits = <<>>
    /\ fError = NoError

FetchInit ==
    /\ client = FALSE
    /\ fKind = "scraper"
    /\ fPc = "idle"
    /\ fAttempt = 0
    /\ fOutcomes = <<>>
    /\ fRequests = <<>>
    /\ fWaits = <<>>
    /\ fError = NoError

\* BaseScraper.start / BaseCollector.start
Start ==
    /\ fPc # "off"
    /\ client' = TRUE
    /\ UNCHANGED <<fKind, fPc, fAttempt, fOutcomes, fRequests, fWaits, fError>>
    /\ UNCHANGED <<classifyVars, restVars, poolVars, runVars>>

\* BaseScraper.stop / BaseCollector.stop
Stop ==
    /\ fPc # "off"
    /\ client' = FALSE
    /\ UNCHANGED <<fKind, fPc, fAttempt, fOutcomes, fRequests, fWaits, fError>>
    /\ UNCHANGED <<classifyVars, restVars, poolVars, runVars>>

\* a caller invokes fetch_content(url) or make_request(url)
Call(kind) ==
    /\ fPc \in {"idle", "returned", "raised"}
    /\ fKind' = kind
    /\ fPc' = "attempt"
    /\ fAttempt' = 1
    /\ fOutcomes' = <<>>
    /\ fRequests' = <<>>
    /\ fWaits' = <<>>
    /\ fError' = NoError
    /\ UNCHANGED <<client, classifyVars, restVars, poolVars, runVars>>

\* tenacity runs the body once; resp is what the server answers if asked
Attempt(resp) ==
    /\ fPc = "attempt"
    /\ LET exc == AttemptResult(fKind, client, resp) IN
        /\ fOutcomes' = Append(fOutcomes, exc)
        /\ fRequests' = IF client THEN Append(fRequests, resp) ELSE fRequests
        /\ IF ~retry_if_exception(exc)
           THEN /\ fPc' = "returned"
                /\ fError' = NoError
           ELSE IF stop_after_attempt(fAttempt)
           THEN /\ fPc' = "raised"
                /\ fError' = [type |-> "RetryError", last |-> exc]
           ELSE /\ fPc' = "sleep"
                /\ fError' = NoError
    /\ UNCHANGED <<client, fKind, fAttempt, fWaits, classifyVars, restVars, poolVars, runVars>>

\* tenacity sleeps wait(retry_state) and starts the next attempt
Sleep ==
    /\ fPc = "sleep"
    /\ fWaits' = Append(fWaits, wait_exponential(fKind, fAttempt))
    /\ fAttempt' = fAttempt + 1
    /\ fPc' = "attempt"
    /\ UNCHANGED <<client, fKind, fOutcomes, fRequests, fError, classifyVars, restVars, poolVars, runVars>>


(***************************************************************************)
(* Concurrent scrapes.  BaseScraper.start builds each scraper's client     *)
(* with httpx.Limits(max_connections=5): a request beyond five waits in    *)
(* the client's pool for a connection, and gives up with PoolTimeout.      *)
(* Settings.max_concurrent_scrapes is read by nothing but the CLI's        *)
(* settings table.                                                         *)
(***************************************************************************)
Scrapers == {"GitHub", "Web"}

\* httpx.Limits(max_connections=5)
max_connections == 5

\* Field(5, ...), the default of Settings.max_concurrent_scrapes
DefaultMaxConcurrentScrapes == 5

\* scrape calls made during one run
NumScrapes == 6

PoolIdle ==
    /\ max_concurrent_scrapes = DefaultMaxConcurrentScrapes
    /\ toRequest = 0
    /\ inFlight = [s \in Scrapers |-> 0]
    /\ poolWaiting = [s \in Scrapers |-> 0]

\* the setting is loaded from the environment or .env (pydantic BaseSettings)
PoolInit ==
    /\ max_concurrent_scrapes \in 1..DefaultMaxConcurrentScrapes
    /\ toRequest = NumScrapes
    /\ inFlight = [s \in Scrapers |-> 0]
    /\ poolWaiting = [s \in Scrapers |-> 0]

\* scrape(url) on scraper s reaches self.client.get(url)
Request(s) ==
    /\ toRequest > 0
    /\ toRequest' = toRequest - 1
    /\ IF inFlight[s] < max_connections
       THEN /\ inFlight' = [inFlight EXCEPT ![s] = @ + 1]
            /\ UNCHANGED poolWaiting
       ELSE /\ poolWaiting' = [poolWaiting EXCEPT ![s] = @ + 1]
            /\ UNCHANGED inFlight
    /\ UNCHANGED <<max_concurrent_scrapes, classifyVars, restVars, fetchVars, runVars>>

\* a response (or an error) ends a request; its connection goes to a waiting
\* request of the same client if there is one
Respond(s) ==
    /\ inFlight[s] > 0
    /\ IF poolWaiting[s] > 0
       THEN /\ poolWaiting' = [poolWaiting EXCEPT ![s] = @ - 1]
            /\ UNCHANGED inFlight
       ELSE /\ inFlight' = [inFlight EXCEPT ![s] = @ - 1]
            /\ UNCHANGED poolWaiting
    /\ UNCHANGED <<max_concurrent_scrapes, toRequest, classifyVars, restVars, fetchVars, runVars>>

\* a waiting request runs out of Timeout(scrape_timeout): httpx.PoolTimeout
PoolTimeout(s) ==
    /\ poolWaiting[s] > 0
    /\ poolWaiting' = [poolWaiting EXCEPT ![s] = @ - 1]
    /\ UNCHANGED <<max_concurrent_scrapes, toRequest, inFlight, classifyVars, restVars, fetchVars, runVars>>


(***************************************************************************)
(* Strings as sequences: split, strip, join.                               *)
(***************************************************************************)
RECURSIVE FirstIndex(_, _, _)
\* the least i >= from with s[i] \in set, 0 if there is none
FirstIndex(s, set, from) ==
    IF from > Len(s) THEN 0
    ELSE IF s[from] \in set THEN from
    ELSE FirstIndex(s, set, from + 1)

RECURSIVE SplitOn(_, _)
\* s.split(sep)
SplitOn(s, sep) ==
    LET i == FirstIndex(s, {sep}, 1) IN
    IF i = 0 THEN <<s>>
    ELSE <<SubSeq(s, 1, i - 1)>> \o SplitOn(SubSeq(s, i + 1, Len(s)), sep)

RECURSIVE LStrip(_, _)
LStrip(s, set) ==
    IF s # <<>> /\ Head(s) \in set THEN LStrip(Tail(s), set) ELSE s

RECURSIVE RStrip(_, _)
RStrip(s, set) ==
    IF s # <<>> /\ s[Len(s)] \in set THEN RStrip(SubSeq(s, 1, Len(s) - 1), set) ELSE s

\* s.strip(chars)
StripSet(s, set) == RStrip(LStrip(s, set), set)

RECURSIVE JoinWith(_, _)
\* sep.join(parts)
JoinWith(parts, sep) ==
    IF parts = <<>> THEN <<>>
    ELSE IF Len(parts) = 1 THEN parts[1]
    ELSE parts[1] \o <<sep>> \o JoinWith(Tail(parts), sep)

(***************************************************************************)
(* BaseScraper.clean_content and calculate_content_hash.  A text is a      *)
(* sequence of characters.                                                 *)
(***************************************************************************)
\* what str.strip() removes
Whitespace == {" ", "\t", "\n", "\r"}

TruncationMarker ==
    <<"\n", "\n", "[", "C", "o", "n", "t", "e", "n", "t", " ",
      "t", "r", "u", "n", "c", "a", "t", "e", "d", "]">>

RECURSIVE LeadingRun(_, _)
\* the length of the run of c that s starts with
LeadingRun(s, c) ==
    IF s # <<>> /\ Head(s) = c THEN 1 + LeadingRun(Tail(s), c) ELSE 0

RECURSIVE CollapseNewlines(_)
\* re.sub(r'\n{3,}', '\n\n', s)
CollapseNewlines(s) ==
    IF s = <<>> THEN <<>>
    ELSE IF Head(s) = "\n"
    THEN LET n == LeadingRun(s, "\n") IN
         (IF n >= 3 THEN <<"\n", "\n">> ELSE SubSeq(s, 1, n))
             \o CollapseNewlines(SubSeq(s, n + 1, Len(s)))
    ELSE <<Head(s)>> \o CollapseNewlines(Tail(s))

StripLines(lines) == [i \in 1..Len(lines) |-> StripSet(lines[i], Whitespace)]

\* a normalizer that cuts and appends no marker
clean_content_unmarked(content, max_content_length) ==
    IF content = <<>> THEN <<>>
    ELSE LET collapsed == CollapseNewlines(
                              JoinWith(StripLines(SplitOn(content, "\n")), "\n"))
         IN StripSet(SubSeq(collapsed, 1, Min2(max_content_length, Len(collapsed))),
                     Whitespace)

clean_content(content, max_content_length) ==
    IF content = <<>> THEN <<>>
    ELSE LET lines == SplitOn(content, "\n")
             joined == JoinWith(StripLines(lines), "\n")
             collapsed == CollapseNewlines(joined)
             limited == IF Len(collapsed) > max_content_length
                        THEN SubSeq(collapsed, 1, max_content_length) \o TruncationMarker
                        ELSE collapsed
         IN StripSet(limited, Whitespace)

\* hashlib.sha256(content.encode('utf-8')).hexdigest(): distinct texts have
\* distinct digests
calculate_content_hash(content) == <<"sha256">> \o content

\* Field(1000000, ...), the default of Settings.max_content_length
DefaultMaxContentLength == 1000000


(***************************************************************************)
(* urllib.parse on token URLs.                                             *)
(***************************************************************************)
HasScheme(url) == Len(url) >= 1 /\ url[1] \in SchemeTokens

\* urlparse(url).netloc
Netloc(url) ==
    IF ~HasScheme(url) THEN <<>>
    ELSE LET rest == Tail(url)
             i == FirstIndex(rest, {"/"}, 1)
         IN IF i = 0 THEN rest ELSE SubSeq(rest, 1, i - 1)

\* urlparse(url).path
UrlPath(url) ==
    IF ~HasScheme(url) THEN url
    ELSE LET rest == Tail(url)
             i == FirstIndex(rest, {"/"}, 1)
         IN IF i = 0 THEN <<>> ELSE SubSeq(rest, i, Len(rest))

RECURSIVE LastIndex(_, _, _)
\* the greatest i <= from with s[i] = c, 0 if there is none
LastIndex(s, c, from) ==
    IF from = 0 THEN 0
    ELSE IF s[from] = c THEN from
    ELSE LastIndex(s, c, from - 1)

\* urljoin(base_url, href) for an absolute, a root-relative or a relative href
urljoin(base_url, href) ==
    IF href = <<>> THEN base_url
    ELSE IF HasScheme(href) THEN href
    ELSE IF ~HasScheme(base_url) THEN href
    ELSE IF Head(href) = "/" THEN <<base_url[1]>> \o Netloc(base_url) \o href
    ELSE LET p == UrlPath(base_url)
             j == LastIndex(p, "/", Len(p))
             dir == IF j = 0 THEN <<"/">> ELSE SubSeq(p, 1, j)
         IN <<base_url[1]>> \o Netloc(base_url) \o dir \o href

(***************************************************************************)
(* GitHubScraper discovery.  `world` holds what the GitHub API answers to  *)
(* each probe of one discover_docs call:                                   *)
(*   world.readme[name]  [kind, download_url]   kind: "200" | "404" |      *)
(*                        "exc" (the request raises) | "badjson" (a 200    *)
(*                        whose body has no download_url)                  *)
(*   world.dirs[dir]     [kind, items]          kind: "200list" | "200dict"*)
(*                        | "404" | "exc"; an item is [type, name,         *)
(*                        download_url, wellformed]                        *)
(*   world.wiki          "200" | "404" | "exc"                             *)
(***************************************************************************)
readme_names == <<"README.md", "README.rst", "README.txt", "README">>

doc_dirs == <<"docs", "documentation", "doc", "wiki">>

doc_extensions == {".md", ".rst", ".txt", ".adoc", ".asciidoc"}

doc_names == {"readme", "changelog", "contributing", "license", "install", "usage", "api"}

\* str.lower() on the tokens of file names
Lower(tok) ==
    CASE tok = "LICENSE" -> "license"
      [] tok = "README" -> "readme"
      [] tok = "Intro" -> "intro"
      [] tok = ".MD" -> ".md"
      [] tok = "Ethereum" -> "ethereum"
      [] tok = "SOLANA" -> "solana"
      [] tok = "Polygon" -> "polygon"
      [] OTHER -> tok

\* the tokens that spell ".<something>"
IsDotToken(tok) == tok \in doc_extensions \cup {".MD", ".png", ".json"}

\* GitHubScraper._is_doc_file; a file name is its base followed by its
\* ".ext" tokens
GitHubScraper_is_doc_file(filename) ==
    IF filename = <<>> THEN FALSE
    ELSE LET filename_lower == [i \in 1..Len(filename) |-> Lower(filename[i])]
             name_without_ext ==
                 IF IsDotToken(filename_lower[1]) THEN "" ELSE filename_lower[1]
         IN \/ filename_lower[Len(filename_lower)] \in doc_extensions
            \/ name_without_ext \in doc_names

\* GitHubScraper._extract_owner_repo
GitHubScraper_extract_owner_repo(url) ==
    LET parts == SplitOn(StripSet(UrlPath(url), {"/"}), "/") IN
    IF Len(parts) >= 2 THEN <<parts[1], parts[2]>> ELSE <<<<>>, <<>>>>

RECURSIVE ReadmeFrom(_, _)
\* the loop of _find_readme_files from the i-th name on
ReadmeFrom(world, i) ==
    IF i > Len(readme_names) THEN <<>>
    ELSE LET r == world.readme[readme_names[i]] IN
         IF r.kind = "200"
         THEN <<[url |-> r.download_url, title |-> <<readme_names[i]>>, type |-> "readme"]>>
         ELSE ReadmeFrom(world, i + 1)

RECURSIVE ReadmeAllFrom(_, _)
\* the loop without its break
ReadmeAllFrom(world, i) ==
    IF i > Len(readme_names) THEN <<>>
    ELSE LET r == world.readme[readme_names[i]] IN
         (IF r.kind = "200"
          THEN <<[url |-> r.download_url, title |-> <<readme_names[i]>>, type |-> "readme"]>>
          ELSE <<>>) \o ReadmeAllFrom(world, i + 1)

GitHubScraper_find_readme_files_all(world) == ReadmeAllFrom(world, 1)

GitHubScraper_find_readme_files(world) == ReadmeFrom(world, 1)

RECURSIVE ListingDocs(_, _, _)
\* the loop over a directory listing from the k-th item on:
\* [docs |-> the candidates appended, raised |-> an item raised KeyError]
ListingDocs(dir, items, k) ==
    IF k > Len(items) THEN [docs |-> <<>>, raised |-> FALSE]
    ELSE IF ~items[k].wellformed THEN [docs |-> <<>>, raised |-> TRUE]
    ELSE LET rest == ListingDocs(dir, items, k + 1)
             it == items[k]
         IN IF it.type = "file" /\ GitHubScraper_is_doc_file(it.name)
            THEN [docs |-> <<[url |-> it.download_url,
                              title |-> <<dir, "/">> \o it.name,
                              type |-> "docs"]>> \o rest.docs,
                  raised |-> rest.raised]
            ELSE rest

RECURSIVE DocsDirFrom(_, _)
\* the loop of _find_docs_directory from the i-th directory on
DocsDirFrom(world, i) ==
    IF i > Len(doc_dirs) THEN <<>>
    ELSE LET r == world.dirs[doc_dirs[i]] IN
         IF r.kind = "200list"
         THEN LET l == ListingDocs(doc_dirs[i], r.items, 1) IN
              IF l.raised THEN l.docs \o DocsDirFrom(world, i + 1) ELSE l.docs
         ELSE IF r.kind = "200dict" THEN <<>>
         ELSE DocsDirFrom(world, i + 1)

GitHubScraper_find_docs_directory(world) == DocsDirFrom(world, 1)

GitHubScraper_check_wiki(owner, repo, world) ==
    IF world.wiki = "200"
    THEN <<[url |-> <<"https://", "github.com", "/">> \o owner \o <<"/">> \o repo
                        \o <<"/", "wiki">>,
            title |-> <<"Wiki">>, type |-> "wiki"]>>
    ELSE <<>>

GitHubScraper_discover_docs(project_url, world) ==
    LET or == GitHubScraper_extract_owner_repo(project_url) IN
    IF or[1] = <<>> \/ or[2] = <<>> THEN <<>>
    ELSE GitHubScraper_find_readme_files(world)
            \o GitHubScraper_find_docs_directory(world)
            \o GitHubScraper_check_wiki(or[1], or[2], world)


(***************************************************************************)
(* The retried call as a function of what the server answers: script[k]    *)
(* is the response to the k-th request.  It runs the attempts of the       *)
(* state machine above to their end.                                       *)
(***************************************************************************)
RECURSIVE RunAttempts(_, _, _, _)
RunAttempts(kind, started, script, attempt_number) ==
    LET exc == AttemptResult(kind, started, script[attempt_number]) IN
    IF ~retry_if_exception(exc)
    THEN [ok |-> TRUE, attempts |-> attempt_number, error |-> NoError]
    ELSE IF stop_after_attempt(attempt_number)
    THEN [ok |-> FALSE, attempts |-> attempt_number,
          error |-> [type |-> "RetryError", last |-> exc]]
    ELSE RunAttempts(kind, started, script, attempt_number + 1)

\* BaseScraper.fetch_content(url) against a server that answers by script
fetch_content(started, script) == RunAttempts("scraper", started, script, 1)

\* the response scripts: one response for each of up to three requests
Scripts == [1..StopAttempts -> Responses]

(***************************************************************************)
(* WebScraper discovery.  `world` holds what the web answers during one    *)
(* discover_docs call:                                                     *)
(*   world.main    the script of responses for the project's main page     *)
(*   world.links   the <a href> elements of the main page, in page order,  *)
(*                 each [href, text]                                       *)
(*   world.sub[p]  the answer to HEAD https://p.<domain>: "200" | "404" |  *)
(*                 "exc"                                                   *)
(***************************************************************************)
\* the tokens in which re.search finds one of doc_patterns, case ignored:
\* docs?(umentation)?, guide, tutorial, api, reference, manual, help
MatchesDocPattern(tok) ==
    tok \in {"doc", "docs", "Docs", "documentation", "Documentation", "guide", "Guide",
             "tutorial", "api", "API", "reference", "manual", "help", "Help",
             "developers-guide", "api-docs"}

HrefMatches(href) == \E i \in 1..Len(href) : MatchesDocPattern(href[i])

\* return docs[:10]
MaxDocLinks == 10

RECURSIVE DocLinksFrom(_, _, _)
\* the loop of _find_doc_links from the k-th link on; a link's text is one
\* token, "" when the element has no text
DocLinksFrom(links, base_url, k) ==
    IF k > Len(links) THEN <<>>
    ELSE LET link == links[k]
             is_doc_link == MatchesDocPattern(link.text) \/ HrefMatches(link.href)
             rest == DocLinksFrom(links, base_url, k + 1)
         IN IF is_doc_link
            THEN <<[url |-> urljoin(base_url, link.href),
                    title |-> IF link.text # "" THEN <<link.text>> ELSE <<"Documentation">>,
                    type |-> "website"]>> \o rest
            ELSE rest

\* link discovery without the final docs[:10]
WebScraper_find_doc_links_uncapped(links, base_url) == DocLinksFrom(links, base_url, 1)

WebScraper_find_doc_links(links, base_url) ==
    LET docs == DocLinksFrom(links, base_url, 1) IN
    SubSeq(docs, 1, Min2(Len(docs), MaxDocLinks))

doc_subdomains == <<"docs", "documentation", "dev", "developers", "api", "guide">>

\* str.title() on the subdomain prefixes
TitleCase(tok) ==
    CASE tok = "docs" -> "Docs"
      [] tok = "documentation" -> "Documentation"
      [] tok = "dev" -> "Dev"
      [] tok = "developers" -> "Developers"
      [] tok = "api" -> "Api"
      [] tok = "guide" -> "Guide"
      [] OTHER -> tok

\* domain = netloc, without a leading 'www.'
RootDomain(project_url) ==
    LET domain == Netloc(project_url) IN
    IF Len(domain) >= 2 /\ domain[1] = "www" /\ domain[2] = "."
    THEN SubSeq(domain, 3, Len(domain)) ELSE domain

RECURSIVE SubdomainsFrom(_, _, _)
\* the loop of _check_doc_subdomains from the i-th prefix on
SubdomainsFrom(domain, sub, i) ==
    IF i > Len(doc_subdomains) THEN <<>>
    ELSE LET subdomain == doc_subdomains[i]
             rest == SubdomainsFrom(domain, sub, i + 1)
         IN IF sub[subdomain] = "200"
            THEN <<[url |-> <<"https://", subdomain, ".">> \o domain,
                    title |-> <<TitleCase(subdomain), " Documentation">>,
                    type |-> "website"]>> \o rest
            ELSE rest

RECURSIVE SubdomainsUntilError(_, _, _)
\* a loop whose exception handler leaves the loop
SubdomainsUntilError(domain, sub, i) ==
    IF i > Len(doc_subdomains) \/ sub[doc_subdomains[i]] = "exc" THEN <<>>
    ELSE LET subdomain == doc_subdomains[i]
             rest == SubdomainsUntilError(domain, sub, i + 1)
         IN IF sub[subdomain] = "200"
            THEN <<[url |-> <<"https://", subdomain, ".">> \o domain,
                    title |-> <<TitleCase(subdomain), " Documentation">>,
                    type |-> "website"]>> \o rest
            ELSE rest

WebScraper_check_doc_subdomains_stopOnError(project_url, sub) ==
    SubdomainsUntilError(RootDomain(project_url), sub, 1)

WebScraper_check_doc_subdomains(project_url, sub) ==
    SubdomainsFrom(RootDomain(project_url), sub, 1)

\* WebScraper.discover_docs: an exception of the main-page fetch leaves the
\* try block with docs still empty
WebScraper_discover_docs(project_url, world) ==
    IF ~fetch_content(TRUE, world.main).ok THEN <<>>
    ELSE WebScraper_find_doc_links(world.links, project_url)
            \o WebScraper_check_doc_subdomains(project_url, world.sub)


(***************************************************************************)
(* The adapters' scrape.                                                   *)
(***************************************************************************)
RECURSIVE ReplaceAll(_, _, _)
\* s.replace(old, new) for a token sequence old of length >= 1
ReplaceAll(s, old, new) ==
    IF Len(s) < Len(old) THEN s
    ELSE IF SubSeq(s, 1, Len(old)) = old
    THEN new \o ReplaceAll(SubSeq(s, Len(old) + 1, Len(s)), old, new)
    ELSE <<Head(s)>> \o ReplaceAll(Tail(s), old, new)

\* sub in s
ContainsSeq(s, sub) ==
    \E i \in 1..(Len(s) - Len(sub) + 1) : SubSeq(s, i, i + Len(sub) - 1) = sub

RawHost == <<"raw", ".", "githubusercontent.com">>

GitHubScraper_convert_to_raw_url(url) ==
    IF ContainsSeq(url, RawHost) THEN url
    ELSE IF ContainsGithubCom(url) /\ ContainsSeq(url, <<"/", "blob", "/">>)
    THEN ReplaceAll(ReplaceAll(url, <<"github.com">>, RawHost), <<"/", "blob", "/">>, <<"/">>)
    ELSE url

NoContent == <<"None">>
NoHash == <<"None">>

\* GitHubScraper.scrape and WebScraper.scrape: fetch, extract, clean; any
\* exception is logged and raised again.  `body` is the text the page holds
\* (for a web page, the text _extract_content takes from it).  The title
\* the code returns beside the content is left out.
scrape(adapter, url, script, body) ==
    LET fetched == IF adapter = "GitHub" THEN GitHubScraper_convert_to_raw_url(url) ELSE url
        r == fetch_content(TRUE, script)
    IN IF r.ok
       THEN [ok |-> TRUE, fetched |-> fetched,
             content |-> clean_content(body, DefaultMaxContentLength), error |-> NoError]
       ELSE [ok |-> FALSE, fetched |-> fetched, content |-> NoContent, error |-> r.error]


(***************************************************************************)
(* The worlds a run can meet: one project, its repository and its site.    *)
(***************************************************************************)
NoUrl == <<>>
GH_REPO == <<"https://", "github.com", "/", "acme", "/", "widget">>
WEB_SITE == <<"https://", "www", ".", "example.com">>
\* a website stored without its scheme
BAD_SITE == <<"example.com">>

RawFile(path) == <<"https://">> \o RawHost \o <<"/", "acme", "/", "widget", "/", "main", "/">> \o path
WIKI == GH_REPO \o <<"/", "wiki">>
DOCS_SUB == <<"https://", "docs", ".", "example.com">>

Absent == [kind |-> "404", download_url |-> NoUrl]
Raises == [kind |-> "exc", download_url |-> NoUrl]
NoDir == [kind |-> "404", items |-> <<>>]

File(dir, name) ==
    [type |-> "file", name |-> name, download_url |-> RawFile(<<dir, "/">> \o name),
     wellformed |-> TRUE]

\* no README, docs/ holding logo.png alone, a wiki
GW_Wiki ==
    [readme |-> [n \in {readme_names[i] : i \in 1..Len(readme_names)} |-> Absent],
     dirs |-> [d \in {doc_dirs[i] : i \in 1..Len(doc_dirs)} |->
                 IF d = "docs"
                 THEN [kind |-> "200list", items |-> <<File("docs", <<"logo", ".png">>)>>]
                 ELSE NoDir],
     wiki |-> "200"]

\* a README.md and nothing else
GW_Readme ==
    [readme |-> [n \in {readme_names[i] : i \in 1..Len(readme_names)} |->
                   IF n = "README.md"
                   THEN [kind |-> "200", download_url |-> RawFile(<<"README.md">>)]
                   ELSE Absent],
     dirs |-> [d \in {doc_dirs[i] : i \in 1..Len(doc_dirs)} |-> NoDir],
     wiki |-> "404"]

\* every probe raises
GW_Down ==
    [readme |-> [n \in {readme_names[i] : i \in 1..Len(readme_names)} |-> Raises],
     dirs |-> [d \in {doc_dirs[i] : i \in 1..Len(doc_dirs)} |-> [kind |-> "exc", items |-> <<>>]],
     wiki |-> "exc"]

GitHubWorlds == {GW_Wiki, GW_Readme, GW_Down}

AllOk == [k \in 1..StopAttempts |-> "ok"]
AllDown == [k \in 1..StopAttempts |-> "http500"]
NoSubdomain == [p \in {doc_subdomains[i] : i \in 1..Len(doc_subdomains)} |-> "404"]

\* the same link twice on the page
WW_Twice ==
    [main |-> AllOk,
     links |-> <<[href |-> <<"/", "docs">>, text |-> "Docs"],
                 [href |-> <<"/", "about">>, text |-> "About"],
                 [href |-> <<"/", "docs">>, text |-> "Docs"]>>,
     sub |-> NoSubdomain]

\* a link to the docs subdomain, which also answers the probe
WW_Sub ==
    [main |-> AllOk,
     links |-> <<[href |-> DOCS_SUB, text |-> "Documentation"]>>,
     sub |-> [NoSubdomain EXCEPT !["docs"] = "200", !["api"] = "exc"]]

\* a link to the repository's wiki
WW_WikiLink ==
    [main |-> AllOk,
     links |-> <<[href |-> WIKI, text |-> "Docs"]>>,
     sub |-> NoSubdomain]

\* the main page cannot be fetched
WW_Down == [main |-> AllDown, links |-> <<>>, sub |-> NoSubdomain]

WebWorlds == {WW_Twice, WW_Sub, WW_WikiLink, WW_Down}

\* what a candidate's server answers to the scrape of it
RunScripts ==
    {AllOk,
     [k \in 1..StopAttempts |-> IF k = 1 THEN "timeout" ELSE "ok"],
     [k \in 1..StopAttempts |-> "http404"]}

\* the texts a candidate can hold
Bodies == {<<"a">>, <<"a", " ">>, <<"b">>}

\* discovery runs made in one behaviour
MaxRuns == 2


(***************************************************************************)
(* The store: DocumentationTable and UpdateRecordTable rows, and the       *)
(* persistence operations the pipeline uses on them.                       *)
(***************************************************************************)
ProjectId == "p1"

\* the index of the Document row of (project_id, url), 0 if there is none
DocIndex(docs, project_id, url) ==
    LET hits == {i \in 1..Len(docs) : docs[i].project_id = project_id /\ docs[i].url = url}
    IN IF hits = {} THEN 0 ELSE CHOOSE i \in hits : \A j \in hits : i <= j

\* load_latest_hash(document_identity)
load_latest_hash_none(docs, project_id, url) == NoHash

load_latest_hash(docs, project_id, url) ==
    LET i == DocIndex(docs, project_id, url) IN
    IF i = 0 THEN NoHash ELSE docs[i].content_hash

\* a table without the constraint
uq_documentation_project_url_absent(docs, row) == TRUE

\* UniqueConstraint("project_id", "url"): the table takes a new row only
\* when it holds none with the row's (project_id, url)
uq_documentation_project_url(docs, row) == DocIndex(docs, row.project_id, row.url) = 0

\* upsert_document: the row of (project_id, url) is added where the table
\* takes it, and updated otherwise
upsert_document(docs, row) ==
    IF uq_documentation_project_url(docs, row)
    THEN Append(docs, row)
    ELSE [docs EXCEPT ![DocIndex(docs, row.project_id, row.url)] = row]

(***************************************************************************)
(* Change Detector.                                                        *)
(***************************************************************************)
detect_change_anyDifference(url, old_hash, new_hash) ==
    [documentation_id |-> url, old_hash |-> old_hash, new_hash |-> new_hash,
     changes_detected |-> old_hash # new_hash]

\* detect_change(document_identity, new_hash), given the latest stored hash
detect_change(url, old_hash, new_hash) ==
    [documentation_id |-> url, old_hash |-> old_hash, new_hash |-> new_hash,
     changes_detected |-> old_hash # NoHash /\ old_hash # new_hash]

record_scrape_onlyChanges(records, rec) ==
    IF rec.changes_detected THEN Append(records, rec) ELSE records

\* insert_update_record: one UpdateRecord per successful scrape
record_scrape(records, rec) == Append(records, rec)

(***************************************************************************)
(* Discovery Orchestrator: run_discovery(project).                         *)
(***************************************************************************)
\* the adapters whose can_handle accepts url
AdaptersFor(url) ==
    (IF GitHubScraper_can_scrape(url) THEN <<[adapter |-> "GitHub", url |-> url]>> ELSE <<>>)
    \o (IF WebScraper_can_scrape(url) THEN <<[adapter |-> "Web", url |-> url]>> ELSE <<>>)

\* the project's known URLs: repository URL, website URL
KnownUrls(p) == SelectSeq(<<p.github_repo, p.website>>, LAMBDA u : u # NoUrl)

RECURSIVE AdaptersOver(_)
AdaptersOver(urls) ==
    IF urls = <<>> THEN <<>> ELSE AdaptersFor(Head(urls)) \o AdaptersOver(Tail(urls))

select_adapters_repositoryOnly(p) ==
    IF p.github_repo = NoUrl THEN <<>> ELSE AdaptersFor(p.github_repo)

select_adapters(p) == AdaptersOver(KnownUrls(p))

RECURSIVE DedupByUrl(_, _)
DedupByUrl(cands, seen) ==
    IF cands = <<>> THEN <<>>
    ELSE IF Head(cands).url \in seen THEN DedupByUrl(Tail(cands), seen)
    ELSE <<Head(cands)>> \o DedupByUrl(Tail(cands), seen \cup {Head(cands).url})

deduplicate_not(cands) == cands

\* merge and deduplicate by URL, exact match
deduplicate(cands) == DedupByUrl(cands, {})

Without(seq, i) == SubSeq(seq, 1, i - 1) \o SubSeq(seq, i + 1, Len(seq))

remaining_abortOnFailure(cands, i, ok) == IF ok THEN Without(cands, i) ELSE <<>>

\* the candidates still to fetch once the i-th has been fetched, whether
\* its fetch succeeded or failed
remaining(cands, i, ok) == Without(cands, i)

Tag(adapter, docs) ==
    [k \in 1..Len(docs) |->
        [adapter |-> adapter, url |-> docs[k].url, title |-> docs[k].title,
         type |-> docs[k].type]]

RunIdle ==
    /\ project = [github_repo |-> NoUrl, website |-> NoUrl]
    /\ runPc = "off"
    /\ runNo = 0
    /\ adapters = <<>>
    /\ discovered = <<>>
    /\ candidates = <<>>
    /\ fetches = <<>>
    /\ outcomes = <<>>
    /\ documents = <<>>
    /\ updateRecords = <<>>
    /\ runBase = 0

RunInit ==
    /\ project \in [github_repo : {NoUrl, GH_REPO}, website : {NoUrl, WEB_SITE, BAD_SITE}]
    /\ runPc = "idle"
    /\ runNo = 0
    /\ adapters = <<>>
    /\ discovered = <<>>
    /\ candidates = <<>>
    /\ fetches = <<>>
    /\ outcomes = <<>>
    /\ documents = <<>>
    /\ updateRecords = <<>>
    /\ runBase = 0

\* run_discovery is called: select the adapters, or raise NoApplicableAdapter
StartRun ==
    /\ runPc \in {"idle", "done", "raised"}
    /\ runNo < MaxRuns
    /\ runNo' = runNo + 1
    /\ adapters' = select_adapters(project)
    /\ runPc' = IF select_adapters(project) = <<>> THEN "raised" ELSE "discovering"
    /\ discovered' = <<>>
    /\ candidates' = <<>>
    /\ fetches' = <<>>
    /\ outcomes' = <<>>
    /\ runBase' = Len(updateRecords)
    /\ UNCHANGED <<project, documents, updateRecords, classifyVars, restVars, fetchVars, poolVars>>

\* the next selected adapter enumerates its candidates
Discover(world) ==
    /\ runPc = "discovering"
    /\ adapters # <<>>
    /\ LET a == Head(adapters) IN
        /\ IF a.adapter = "GitHub" THEN world \in GitHubWorlds ELSE world \in WebWorlds
        /\ discovered' = discovered \o
              Tag(a.adapter, IF a.adapter = "GitHub"
                             THEN GitHubScraper_discover_docs(a.url, world)
                             ELSE WebScraper_discover_docs(a.url, world))
    /\ adapters' = Tail(adapters)
    /\ UNCHANGED <<project, runPc, runNo, candidates, fetches, outcomes, documents,
                   updateRecords, runBase, classifyVars, restVars, fetchVars, poolVars>>

\* all adapters have answered: merge and deduplicate before any fetch
Deduplicate ==
    /\ runPc = "discovering"
    /\ adapters = <<>>
    /\ candidates' = deduplicate(discovered)
    /\ runPc' = "fetching"
    /\ UNCHANGED <<project, runNo, adapters, discovered, fetches, outcomes, documents,
                   updateRecords, runBase, classifyVars, restVars, fetchVars, poolVars>>

\* one candidate, in any order: fetch, normalise, hash, detect the change,
\* and write the Document and the UpdateRecord in one transaction
FetchCandidate(i, script, body) ==
    /\ runPc = "fetching"
    /\ i \in 1..Len(candidates)
    /\ LET c == candidates[i]
           r == scrape(c.adapter, c.url, script, body)
           new_hash == calculate_content_hash(r.content)
           old_hash == load_latest_hash(documents, ProjectId, c.url)
           k == DocIndex(documents, ProjectId, c.url)
       IN
        /\ fetches' = Append(fetches, c.url)
        /\ candidates' = remaining(candidates, i, r.ok)
        /\ IF r.ok
           THEN /\ outcomes' = Append(outcomes,
                      [url |-> c.url, status |-> "success", content |-> r.content,
                       hash |-> new_hash, error |-> NoError])
                /\ documents' = upsert_document(documents,
                      [project_id |-> ProjectId, url |-> c.url, content_hash |-> new_hash,
                       scrape_status |-> "success"])
                /\ updateRecords' =
                      record_scrape(updateRecords, detect_change(c.url, old_hash, new_hash))
           ELSE /\ outcomes' = Append(outcomes,
                      [url |-> c.url, status |-> "failed", content |-> NoContent,
                       hash |-> NoHash, error |-> r.error])
                /\ documents' = upsert_document(documents,
                      [project_id |-> ProjectId, url |-> c.url, content_hash |-> old_hash,
                       scrape_status |-> "failed"])
                /\ UNCHANGED updateRecords
    /\ UNCHANGED <<project, runPc, runNo, adapters, discovered, runBase,
                   classifyVars, restVars, fetchVars, poolVars>>

FetchAny ==
    \E i \in 1..Len(candidates), script \in RunScripts, body \in Bodies :
        FetchCandidate(i, script, body)

\* every candidate has its outcome: the run returns the list
ReturnOutcomes ==
    /\ runPc = "fetching"
    /\ candidates = <<>>
    /\ runPc' = "done"
    /\ UNCHANGED <<project, runNo, adapters, discovered, candidates, fetches, outcomes,
                   documents, updateRecords, runBase, classifyVars, restVars, fetchVars,
                   poolVars>>

(***************************************************************************)
(* CryptoService.check_updates: the rows, most recent first, up to         *)
(* request.limit, each through _convert_update_record.  The query changes  *)
(* nothing: its answer is a function of the rows.                          *)
(***************************************************************************)
convert_update_record(record) ==
    [documentation_id |-> record.documentation_id,
     old_hash |-> record.old_hash,
     new_hash |-> record.new_hash,
     changes_detected |-> record.changes_detected]

Reverse(seq) == [i \in 1..Len(seq) |-> seq[Len(seq) + 1 - i]]

check_updates(records, limit) ==
    LET rows == SubSeq(Reverse(records), 1, Min2(limit, Len(records)))
        updates == [i \in 1..Len(rows) |-> convert_update_record(rows[i])]
    IN [updates |-> updates, total |-> Len(updates)]

\* the limits a request is made with (the field admits 1..100, default 20)
Limits == {1, 2, 20}

(***************************************************************************)
(* clean_content applied to its own output.                                *)
(***************************************************************************)
MaxTextLen == 4

Chars == {"a", " ", "\n"}

Texts == UNION {[1..n -> Chars] : n \in 0..MaxTextLen}

\* values of max_content_length: small ones, which truncate, and the default
MaxLengths == {1, 2, 3, DefaultMaxContentLength}

CleanIdle ==
    /\ nContent = <<>>
    /\ nMax = DefaultMaxContentLength
    /\ nPc = "off"
    /\ nOnce = <<>>
    /\ nTwice = <<>>

CleanInit ==
    /\ nContent \in Texts
    /\ nMax \in MaxLengths
    /\ nPc = "input"
    /\ nOnce = <<>>
    /\ nTwice = <<>>

CleanOnce ==
    /\ nPc = "input"
    /\ nOnce' = clean_content(nContent, nMax)
    /\ nPc' = "once"
    /\ UNCHANGED <<nContent, nMax, nTwice, discoverVars, rateVars, persistVars, toolVars, unitVars, classifyVars, fetchVars, poolVars, runVars>>

CleanAgain ==
    /\ nPc = "once"
    /\ nTwice' = clean_content(nOnce, nMax)
    /\ nPc' = "twice"
    /\ UNCHANGED <<nContent, nMax, nOnce, discoverVars, rateVars, persistVars, toolVars, unitVars, classifyVars, fetchVars, poolVars, runVars>>

(***************************************************************************)
(* discover_docs step by step: the try block of each scraper, one helper   *)
(* call per step, with the requests each helper issues.                    *)
(***************************************************************************)
RECURSIVE ReadmeProbesFrom(_, _)
\* the names _find_readme_files requests from the i-th on: it breaks at the
\* first 200 whose body holds download_url
ReadmeProbesFrom(world, i) ==
    IF i > Len(readme_names) THEN <<>>
    ELSE <<readme_names[i]>> \o
         (IF world.readme[readme_names[i]].kind = "200" THEN <<>>
          ELSE ReadmeProbesFrom(world, i + 1))

RECURSIVE DocsDirProbesFrom(_, _)
\* the directories _find_docs_directory requests from the i-th on: it breaks
\* at the first 200 whose listing loop does not raise
DocsDirProbesFrom(world, i) ==
    IF i > Len(doc_dirs) THEN <<>>
    ELSE LET r == world.dirs[doc_dirs[i]]
             broke == \/ r.kind = "200dict"
                      \/ r.kind = "200list" /\ ~ListingDocs(doc_dirs[i], r.items, 1).raised
         IN <<doc_dirs[i]>> \o (IF broke THEN <<>> ELSE DocsDirProbesFrom(world, i + 1))

Tagged(strategy, targets) == [i \in 1..Len(targets) |-> <<strategy, targets[i]>>]

\* a helper as discover_docs sees it: the list it returns, the requests it
\* made, and whether an exception left it.  The helpers catch every
\* Exception of a probe themselves and go on with the next one.
find_readme_files_call(world) ==
    [docs |-> GitHubScraper_find_readme_files(world),
     probes |-> Tagged("readme", ReadmeProbesFrom(world, 1)),
     raised |-> FALSE]

\* a helper that lets the exception of a probe out
find_docs_directory_call_raising(world) ==
    [docs |-> GitHubScraper_find_docs_directory(world),
     probes |-> Tagged("docs_dir", DocsDirProbesFrom(world, 1)),
     raised |-> \E i \in 1..Len(doc_dirs) : world.dirs[doc_dirs[i]].kind = "exc"]

find_docs_directory_call(world) ==
    [docs |-> GitHubScraper_find_docs_directory(world),
     probes |-> Tagged("docs_dir", DocsDirProbesFrom(world, 1)),
     raised |-> FALSE]

check_wiki_call(owner, repo, world) ==
    [docs |-> GitHubScraper_check_wiki(owner, repo, world),
     probes |-> <<<<"wiki", "wiki">>>>,
     raised |-> FALSE]

check_doc_subdomains_call(project_url, world) ==
    [docs |-> WebScraper_check_doc_subdomains(project_url, world.sub),
     probes |-> Tagged("subdomains", doc_subdomains),
     raised |-> FALSE]

\* the exceptions the model raises; all are subclasses of Exception
ExceptionTypes == {"RetryError", "RuntimeError", "RequestError", "HTTPStatusError",
                   "JSONDecodeError", "KeyError"}

\* a handler for the errors of httpx alone
except_Exception_httpOnly(exc) == exc \in {"RequestError", "HTTPStatusError"}

\* `except Exception as e:` of discover_docs
except_Exception(exc) == exc \in ExceptionTypes

\* where the try block goes when `exc` is raised in it
AfterException(exc) == IF except_Exception(exc) THEN "returned" ELSE "raised"

\* --- the answers discover_docs can meet
GH_OWNER == <<"https://", "github.com", "/", "acme">>

ReadmeKinds == {"200", "404", "exc", "badjson"}

ReadmeAnswer(name, kind) ==
    [kind |-> kind,
     download_url |-> IF kind = "200" THEN RawFile(<<name>>) ELSE NoUrl]

ReadmeWorlds ==
    {[n \in {readme_names[i] : i \in 1..Len(readme_names)} |->
        ReadmeAnswer(n, CASE n = "README.md" -> k1 [] n = "README.rst" -> k2
                          [] n = "README.txt" -> k3 [] OTHER -> k4)] :
     k1 \in ReadmeKinds, k2 \in ReadmeKinds, k3 \in {"200", "404"}, k4 \in {"200", "404"}}

Malformed == [type |-> "file", name |-> <<>>, download_url |-> NoUrl, wellformed |-> FALSE]

SubDir(name) == [type |-> "dir", name |-> name, download_url |-> NoUrl, wellformed |-> TRUE]

\* intro.md, logo.png and a subdirectory api
GoodListing(dir) ==
    <<File(dir, <<"intro", ".md">>), File(dir, <<"logo", ".png">>), SubDir(<<"api">>)>>

\* a listing whose second entry lacks its keys
BadListing(dir) == <<File(dir, <<"intro", ".md">>), Malformed, File(dir, <<"usage">>)>>

DirAnswers(dir) ==
    {NoDir, [kind |-> "exc", items |-> <<>>], [kind |-> "200dict", items |-> <<>>],
     [kind |-> "200list", items |-> GoodListing(dir)],
     [kind |-> "200list", items |-> BadListing(dir)]}

DirWorlds ==
    {[d \in {doc_dirs[i] : i \in 1..Len(doc_dirs)} |->
        CASE d = "docs" -> a1 [] d = "documentation" -> a2 [] d = "doc" -> a3 [] OTHER -> NoDir] :
     a1 \in DirAnswers("docs"), a2 \in DirAnswers("documentation"),
     a3 \in {NoDir, [kind |-> "200list", items |-> GoodListing("doc")]}}

GitHubDiscoverWorlds ==
    {[readme |-> r, dirs |-> d, wiki |-> w] :
     r \in ReadmeWorlds, d \in DirWorlds, w \in {"200", "404", "exc"}}

SubdomainWorlds ==
    {[NoSubdomain EXCEPT !["docs"] = s1, !["documentation"] = s2, !["api"] = s3] :
     s1 \in {"200", "404", "exc"}, s2 \in {"200", "404", "exc"}, s3 \in {"200", "404"}}

WebDiscoverWorlds ==
    {[main |-> m, links |-> l, sub |-> sd] :
     m \in RunScripts \cup {AllDown},
     l \in {<<>>, WW_Twice.links, WW_Sub.links},
     sd \in SubdomainWorlds}

DiscoverIdle ==
    /\ dAdapter = "None"
    /\ dUrl = NoUrl
    /\ dWorld = GW_Down
    /\ dPc = "off"
    /\ dDocs = <<>>
    /\ dProbes = <<>>
    /\ dRan = <<>>

DiscoverInit ==
    /\ \/ /\ dAdapter = "GitHub"
          /\ dUrl = GH_REPO
          /\ dWorld \in GitHubDiscoverWorlds
       \/ /\ dAdapter = "GitHub"
          /\ dUrl = GH_OWNER
          /\ dWorld \in GitHubWorlds
       \/ /\ dAdapter = "Web"
          /\ dUrl = WEB_SITE
          /\ dWorld \in WebDiscoverWorlds
    /\ dPc = "try"
    /\ dDocs = <<>>
    /\ dProbes = <<>>
    /\ dRan = <<>>

\* one helper call inside the try block, then on to `next`
HelperStep(strategy, r, next) ==
    /\ dProbes' = dProbes \o r.probes
    /\ IF r.raised
       THEN /\ dPc' = AfterException("RequestError")
            /\ UNCHANGED <<dDocs, dRan>>
       ELSE /\ dDocs' = dDocs \o r.docs
            /\ dRan' = Append(dRan, [strategy |-> strategy, docs |-> r.docs])
            /\ dPc' = next
    /\ UNCHANGED <<dAdapter, dUrl, dWorld, cleanVars, rateVars, persistVars, toolVars, unitVars, classifyVars, fetchVars, poolVars, runVars>>

\* owner, repo = self._extract_owner_repo(project_url); return docs if
\* either is empty
ExtractOwnerRepo ==
    /\ dPc = "try"
    /\ dAdapter = "GitHub"
    /\ LET or == GitHubScraper_extract_owner_repo(dUrl) IN
       dPc' = IF or[1] = <<>> \/ or[2] = <<>> THEN "returned" ELSE "readme"
    /\ UNCHANGED <<dAdapter, dUrl, dWorld, dDocs, dProbes, dRan,
                   cleanVars, rateVars, persistVars, toolVars, unitVars, classifyVars, fetchVars, poolVars, runVars>>

FindReadmeFiles ==
    /\ dPc = "readme"
    /\ HelperStep("readme", find_readme_files_call(dWorld), "docs_dir")

FindDocsDirectory ==
    /\ dPc = "docs_dir"
    /\ HelperStep("docs_dir", find_docs_directory_call(dWorld), "wiki")

CheckWiki ==
    /\ dPc = "wiki"
    /\ LET or == GitHubScraper_extract_owner_repo(dUrl) IN
       HelperStep("wiki", check_wiki_call(or[1], or[2], dWorld), "returned")

\* html_content = await self.fetch_content(project_url), then the links of
\* the page; an exception of the fetch goes to the handler
FetchMainPage ==
    /\ dPc = "try"
    /\ dAdapter = "Web"
    /\ LET r == fetch_content(TRUE, dWorld.main)
           probes == Tagged("main", [k \in 1..r.attempts |-> "main"])
       IN /\ dProbes' = dProbes \o probes
          /\ IF r.ok
             THEN LET doc_links == WebScraper_find_doc_links(dWorld.links, dUrl) IN
                  /\ dDocs' = dDocs \o doc_links
                  /\ dRan' = Append(dRan, [strategy |-> "links", docs |-> doc_links])
                  /\ dPc' = "subdomains"
             ELSE /\ dPc' = AfterException(r.error.type)
                  /\ UNCHANGED <<dDocs, dRan>>
    /\ UNCHANGED <<dAdapter, dUrl, dWorld, cleanVars, rateVars, persistVars, toolVars, unitVars, classifyVars, fetchVars, poolVars, runVars>>

CheckDocSubdomains ==
    /\ dPc = "subdomains"
    /\ HelperStep("subdomains", check_doc_subdomains_call(dUrl, dWorld), "returned")

(***************************************************************************)
(* The loops that send one request after another to the same host, on a    *)
(* clock: CoinGeckoCollector.collect_projects, GitHubCollector.            *)
(* collect_projects and GitHubScraper._find_readme_files.  A request takes *)
(* RequestTimes seconds; asyncio.sleep(d) takes d.                         *)
(***************************************************************************)
\* await self.rate_limit(1.0)
CoinGeckoDelay == 1

\* await self.rate_limit(2.0)
GitHubDelay == 2

\* per_page = min(250, limit)
CoinGeckoMaxPerPage == 250

\* "per_page": min(100, limit)
GitHubMaxPerPage == 100

\* len(search_queries)
NumSearchQueries == 10

\* requests sent in one behaviour
MaxCalls == 4

RequestTimes == {0, 1}

CollectLimits == {1, 20, 500}

Source(who) == IF who = "coingecko" THEN "api.coingecko.com" ELSE "api.github.com"

\* pages_needed = (limit + per_page - 1) // per_page
pages_needed(limit) ==
    LET per_page == Min2(CoinGeckoMaxPerPage, limit) IN (limit + per_page - 1) \div per_page

\* per_query_limit = max(1, limit // len(search_queries))
per_query_limit(limit) == Max2(1, limit \div NumSearchQueries)

\* the number of items the next request asks for
current_limit(who, limit, projects) ==
    IF who = "coingecko"
    THEN Min2(Min2(CoinGeckoMaxPerPage, limit), limit - projects)
    ELSE Min2(GitHubMaxPerPage, Min2(per_query_limit(limit), limit - projects))

\* the loop is over: range exhausted, or GitHub's `len(projects) >= limit`
LoopDone(who, limit, iter, projects) ==
    CASE who = "coingecko" -> iter > pages_needed(limit)
      [] who = "github" -> iter > NumSearchQueries \/ projects >= limit
      [] OTHER -> iter > Len(readme_names)

RateIdle ==
    /\ rWho = "None"
    /\ rLimit = 0
    /\ rPc = "off"
    /\ rIter = 0
    /\ rAttempt = 0
    /\ rProjects = 0
    /\ rNow = 0
    /\ rCalls = <<>>

RateInit ==
    /\ rWho \in {"coingecko", "github", "readme"}
    /\ rLimit \in CollectLimits
    /\ rPc = "loop"
    /\ rIter = 1
    /\ rAttempt = 1
    /\ rProjects = 0
    /\ rNow = 0
    /\ rCalls = <<>>

\* the head of the for loop
NextIteration ==
    /\ rPc = "loop"
    /\ rPc' = IF LoopDone(rWho, rLimit, rIter, rProjects) THEN "returned" ELSE "request"
    /\ rAttempt' = 1
    /\ UNCHANGED <<rWho, rLimit, rIter, rProjects, rNow, rCalls,
                   cleanVars, discoverVars, persistVars, toolVars, unitVars, classifyVars, fetchVars, poolVars, runVars>>

\* one attempt of make_request inside collect_projects: a page that holds
\* n projects, or a failure that tenacity retries; after the last attempt
\* CoinGecko's loop breaks, and GitHub's _search_repositories returns []
\* to a loop that goes on to rate_limit
CollectorRequest(resp, took, n) ==
    /\ rPc = "request"
    /\ rWho \in {"coingecko", "github"}
    /\ Len(rCalls) < MaxCalls
    /\ rCalls' = Append(rCalls, [source |-> Source(rWho), at |-> rNow])
    /\ rNow' = rNow + took
    /\ LET exc == AttemptResult("collector", TRUE, resp) IN
       IF ~retry_if_exception(exc)
       THEN /\ rProjects' = rProjects + n
            /\ rPc' = "rate_limit"
       ELSE /\ rProjects' = rProjects
            /\ rPc' = IF ~stop_after_attempt(rAttempt) THEN "backoff"
                      ELSE IF rWho = "coingecko" THEN "returned" ELSE "rate_limit"
    /\ UNCHANGED <<rWho, rLimit, rIter, rAttempt,
                   cleanVars, discoverVars, persistVars, toolVars, unitVars, classifyVars, fetchVars, poolVars, runVars>>

\* the answers a request of collect_projects can get
CollectorRequestAny ==
    \E resp \in Responses, took \in RequestTimes :
        \E n \in {0, current_limit(rWho, rLimit, rProjects)} : CollectorRequest(resp, took, n)

\* tenacity sleeps, then the next attempt
Backoff ==
    /\ rPc = "backoff"
    /\ rNow' = rNow + wait_exponential("collector", rAttempt)
    /\ rAttempt' = rAttempt + 1
    /\ rPc' = "request"
    /\ UNCHANGED <<rWho, rLimit, rIter, rProjects, rCalls,
                   cleanVars, discoverVars, persistVars, toolVars, unitVars, classifyVars, fetchVars, poolVars, runVars>>

\* await self.rate_limit(delay), then the next page or query
RateLimit ==
    /\ rPc = "rate_limit"
    /\ rNow' = rNow + (IF rWho = "coingecko" THEN CoinGeckoDelay ELSE GitHubDelay)
    /\ rIter' = rIter + 1
    /\ rPc' = "loop"
    /\ UNCHANGED <<rWho, rLimit, rAttempt, rProjects, rCalls,
                   cleanVars, discoverVars, persistVars, toolVars, unitVars, classifyVars, fetchVars, poolVars, runVars>>

\* one probe of _find_readme_files: self.client.get without retry; a usable
\* 200 breaks the loop, anything else goes on with the next name at once
ReadmeProbe(kind, took) ==
    /\ rPc = "request"
    /\ rWho = "readme"
    /\ Len(rCalls) < MaxCalls
    /\ rCalls' = Append(rCalls, [source |-> Source(rWho), at |-> rNow])
    /\ rNow' = rNow + took
    /\ IF kind = "200"
       THEN rPc' = "returned" /\ rIter' = rIter
       ELSE rPc' = "loop" /\ rIter' = rIter + 1
    /\ UNCHANGED <<rWho, rLimit, rAttempt, rProjects,
                   cleanVars, discoverVars, persistVars, toolVars, unitVars, classifyVars, fetchVars, poolVars, runVars>>

(***************************************************************************)
(* Persisting one scrape outcome inside DatabaseManager.get_session: the   *)
(* statements of the body act on the session; the store changes at commit; *)
(* an exception rolls the session back, and leaving the block closes it.   *)
(***************************************************************************)
\* outcomes committed in one behaviour
MaxCommits == 3

PersistUrls == {WIKI, DOCS_SUB}

NoTx == [documents |-> <<>>, updateRecords |-> <<>>]

NotLeft == [at |-> "None", by |-> "None"]

NoJob == [url |-> NoUrl, old_hash |-> NoHash, new_hash |-> NoHash]

\* a writer that commits after each statement
commit_points_perStatement == {"doc_written", "record_written"}

\* where the writer commits: once, after the Document update and the
\* UpdateRecord insert
commit_points == {"record_written"}

PersistIdle ==
    /\ pPc = "off"
    /\ pJob = NoJob
    /\ pTx = NoTx
    /\ pLeftAt = NotLeft

PersistInit ==
    /\ pPc = "idle"
    /\ pJob = NoJob
    /\ pTx = NoTx
    /\ pLeftAt = NotLeft

\* async with db_manager.get_session() as session, for the outcome of a
\* successful scrape of url whose page holds body
OpenSession(url, body) ==
    /\ pPc = "idle"
    /\ Len(updateRecords) < MaxCommits
    /\ pPc' = "open"
    /\ pTx' = [documents |-> documents, updateRecords |-> updateRecords]
    /\ pJob' = [url |-> url,
                old_hash |-> load_latest_hash(documents, ProjectId, url),
                new_hash |-> calculate_content_hash(
                                 clean_content(body, DefaultMaxContentLength))]
    /\ UNCHANGED <<pLeftAt, cleanVars, discoverVars, rateVars, toolVars, unitVars, classifyVars, fetchVars, poolVars, runVars>>

\* the Document update
WriteDocument ==
    /\ pPc = "open"
    /\ pTx' = [pTx EXCEPT !.documents = upsert_document(@,
                  [project_id |-> ProjectId, url |-> pJob.url,
                   content_hash |-> pJob.new_hash, scrape_status |-> "success"])]
    /\ pPc' = "doc_written"
    /\ UNCHANGED <<pJob, pLeftAt, cleanVars, discoverVars, rateVars, toolVars, unitVars, classifyVars, fetchVars, poolVars, runVars>>

\* the UpdateRecord insert
WriteRecord ==
    /\ pPc = "doc_written"
    /\ pTx' = [pTx EXCEPT !.updateRecords = record_scrape(@,
                  detect_change(pJob.url, pJob.old_hash, pJob.new_hash))]
    /\ pPc' = "record_written"
    /\ UNCHANGED <<pJob, pLeftAt, cleanVars, discoverVars, rateVars, toolVars, unitVars, classifyVars, fetchVars, poolVars, runVars>>

\* await session.commit(): the store takes the session's view; after the
\* last statement the block is left and the session closed
Commit ==
    /\ pPc \in commit_points
    /\ documents' = pTx.documents
    /\ updateRecords' = pTx.updateRecords
    /\ IF pPc = "record_written"
       THEN pPc' = "idle" /\ pJob' = NoJob /\ pTx' = NoTx
       ELSE UNCHANGED <<pPc, pJob, pTx>>
    /\ UNCHANGED <<pLeftAt, project, runPc, runNo, adapters, discovered, candidates, fetches,
                   outcomes, runBase,
                   cleanVars, discoverVars, rateVars, toolVars, unitVars, classifyVars, fetchVars, poolVars>>

\* the body is left without commit: an Exception goes through `except
\* Exception: await session.rollback(); raise`; a CancelledError is no
\* Exception and meets `finally: await session.close()` alone.  Either way
\* what the session had not committed is discarded.
Abandon(exc) ==
    /\ pPc \in {"open", "doc_written", "record_written"}
    /\ pLeftAt' = [at |-> pPc, by |-> IF except_Exception(exc) THEN "rollback" ELSE "close"]
    /\ pPc' = "idle"
    /\ pJob' = NoJob
    /\ pTx' = NoTx
    /\ UNCHANGED <<cleanVars, discoverVars, rateVars, toolVars, unitVars, classifyVars, fetchVars, poolVars, runVars>>

(***************************************************************************)
(* The search_crypto_projects tool: its blockchain and category filters.   *)
(* An identifier is a sequence of words and "-" or "_" tokens.             *)
(***************************************************************************)
\* the values of BlockchainNetwork
BlockchainNetwork ==
    {<<"ethereum">>, <<"binance", "-", "smart", "-", "chain">>, <<"polygon", "-", "pos">>,
     <<"arbitrum", "-", "one">>, <<"optimistic", "-", "ethereum">>, <<"avalanche">>,
     <<"solana">>, <<"cardano">>, <<"polkadot">>, <<"cosmos">>}

\* the values of ProjectCategory
ProjectCategory ==
    {"DeFi", "NFT", "DAO", "DEX", "Lending", "Yield Farming", "Staking", "Bridge",
     "Oracle", "Wallet", "Infrastructure", "Gaming", "Metaverse", "Other"}

\* the blockchain filters a caller can give: none, empty, the supported
\* values, other spellings of them, and names that are no blockchain
BlockchainParams ==
    {<<"None">>, <<>>} \cup BlockchainNetwork
        \cup {<<"Ethereum">>, <<"SOLANA">>, <<"binance", "_", "smart", "_", "chain">>,
              <<"Polygon", "-", "pos">>, <<"bitcoin">>, <<"polygon">>}

CategoryParams == {"None", "", "DeFi", "defi", "Yield Farming", "Games"}

\* str.lower() on an identifier
LowerAll(s) == [i \in 1..Len(s) |-> Lower(s[i])]

\* params.blockchain.lower().replace("-", "_")
blockchain_lookup_key(blockchain) == ReplaceAll(LowerAll(blockchain), <<"-">>, <<"_">>)

\* search_crypto_projects up to the SearchRequest it builds: Enum(value)
\* raises ValueError for what is not a value of the Enum
search_crypto_projects(params) ==
    LET given == params.blockchain # <<"None">> /\ params.blockchain # <<>>
        key == blockchain_lookup_key(params.blockchain)
        has_category == params.category \notin {"None", ""}
    IN IF given /\ key \notin BlockchainNetwork
       THEN [kind |-> "Invalid blockchain", blockchain |-> <<"None">>, category |-> "None"]
       ELSE IF has_category /\ params.category \notin ProjectCategory
       THEN [kind |-> "Invalid category", blockchain |-> <<"None">>, category |-> "None"]
       ELSE [kind |-> "search",
             blockchain |-> IF given THEN key ELSE <<"None">>,
             category |-> IF has_category THEN params.category ELSE "None"]

NoAnswer == [kind |-> "None", blockchain |-> <<"None">>, category |-> "None"]

ToolIdle ==
    /\ tParams = [blockchain |-> <<"None">>, category |-> "None"]
    /\ tPc = "off"
    /\ tAnswer = NoAnswer

ToolInit ==
    /\ tParams \in [blockchain : BlockchainParams, category : CategoryParams]
    /\ tPc = "called"
    /\ tAnswer = NoAnswer

SearchCryptoProjects ==
    /\ tPc = "called"
    /\ tAnswer' = search_crypto_projects(tParams)
    /\ tPc' = "answered"
    /\ UNCHANGED <<tParams, cleanVars, discoverVars, rateVars, persistVars,
                   unitVars, classifyVars, fetchVars, poolVars, runVars>>

(***************************************************************************)
(* One call of a function on given arguments.                              *)
(***************************************************************************)
CallIdle ==
    /\ callArgs = <<>>
    /\ callPc = "off"
    /\ callResult = <<>>


(***************************************************************************)
(* GitHubScraper._extract_title(url, content).                             *)
(***************************************************************************)
StartsWith(s, prefix) ==
    Len(s) >= Len(prefix) /\ SubSeq(s, 1, Len(prefix)) = prefix

\* s[:n]
Take(s, n) == SubSeq(s, 1, Min2(n, Len(s)))

\* for line in lines[:10]
TitleLines == 10

RECURSIVE HeadingFrom(_, _)
\* the loop over the lines from line i on: the title it returns, or
\* <<"None">> when it runs to the end
HeadingFrom(lines, i) ==
    IF i > Len(lines) THEN <<"None">>
    ELSE LET line == StripSet(lines[i], Whitespace) IN
         IF StartsWith(line, <<"#", " ">>)
         THEN StripSet(SubSeq(line, 3, Len(line)), Whitespace)
         ELSE IF StartsWith(line, <<"#", "#", " ">>)
         THEN StripSet(SubSeq(line, 4, Len(line)), Whitespace)
         ELSE HeadingFrom(lines, i + 1)

\* urlparse(url).path.strip('/').split('/')
path_parts(url) == SplitOn(StripSet(UrlPath(url), {"/"}), "/")

\* the code's order: the URL's file name before the content's heading
GitHubScraper_extract_title(url, content) ==
    LET parts == path_parts(url)
        filename == parts[Len(parts)]
        heading == IF content = <<>> THEN <<"None">>
                   ELSE HeadingFrom(Take(SplitOn(content, "\n"), TitleLines), 1)
    IN IF Len(parts) >= 2 /\ filename # <<>> THEN filename
       ELSE IF heading # <<"None">> THEN heading
       ELSE <<"Documentation">>

\* the URLs a title is extracted for
TitleUrls ==
    {<<"https://", "github.com">>,
     <<"https://", "github.com", "/">>,
     <<"https://", "github.com", "/", "acme">>,
     <<"https://", "github.com", "/", "acme", "/", "repo">>,
     <<"https://", "github.com", "/", "acme", "/", "repo", "/">>,
     <<"https://", "github.com", "/", "acme", "/", "repo", "/", "blob", "/", "main", "/", "README.md">>}

\* the lines a content is made of
TitleLineKinds ==
    {<<>>, <<"T">>, <<"#", " ", "T">>, <<"#", "#", " ", "U">>,
     <<" ", "#", " ", "T", " ">>, <<"#", "T">>, <<"#", "#", "#", " ", "T">>}

\* n lines of plain text
PlainLines(n) == [i \in 1..n |-> <<"x">>]

\* the contents: some plain lines, then two lines of any kind
TitleContents ==
    {<<>>} \cup
    {JoinWith(PlainLines(n) \o <<a, b>>, "\n") :
        n \in {0, 8, 9, 10}, a \in TitleLineKinds, b \in TitleLineKinds}

TitleInit ==
    /\ callArgs \in [url : TitleUrls, content : TitleContents]
    /\ callPc = "called"
    /\ callResult = <<>>

ExtractTitle ==
    /\ callPc = "called"
    /\ callArgs \in [url : TitleUrls, content : TitleContents]
    /\ callResult' = GitHubScraper_extract_title(callArgs.url, callArgs.content)
    /\ callPc' = "returned"
    /\ UNCHANGED <<callArgs, lifeVars, sessVars, baseVars, laterVars>>


(***************************************************************************)
(* The life of one scraper or collector: start, stop and the async         *)
(* context manager.  A client is a number; 0 stands for None.              *)
(***************************************************************************)
\* calls made on one object in one behaviour
MaxLifeCalls == 5

\* start without its test creates a client at every call
client_is_None_always(client_) == TRUE

\* if self.client is None
client_is_None(client_) == client_ = 0

LifeIdle ==
    /\ lClient = 0
    /\ lOpen = {}
    /\ lCreated = 0
    /\ lPc = "off"
    /\ lCalls = <<>>

\* __init__: self.client = None
LifeInit ==
    /\ lClient = 0
    /\ lOpen = {}
    /\ lCreated = 0
    /\ lPc = "out"
    /\ lCalls = <<>>

\* the effect of start()
start_effect ==
    IF client_is_None(lClient)
    THEN /\ lCreated' = lCreated + 1
         /\ lClient' = lCreated + 1
         /\ lOpen' = lOpen \cup {lCreated + 1}
    ELSE UNCHANGED <<lClient, lOpen, lCreated>>

\* the effect of stop(): await self.client.aclose(); self.client = None
stop_effect ==
    IF lClient # 0
    THEN /\ lOpen' = lOpen \ {lClient}
         /\ lClient' = 0
         /\ lCreated' = lCreated
    ELSE UNCHANGED <<lClient, lOpen, lCreated>>

LifeStart ==
    /\ lPc # "off"
    /\ Len(lCalls) < MaxLifeCalls
    /\ start_effect
    /\ lCalls' = Append(lCalls, "start")
    /\ UNCHANGED <<lPc, callVars, sessVars, baseVars, laterVars>>

LifeStop ==
    /\ lPc # "off"
    /\ Len(lCalls) < MaxLifeCalls
    /\ stop_effect
    /\ lCalls' = Append(lCalls, "stop")
    /\ UNCHANGED <<lPc, callVars, sessVars, baseVars, laterVars>>

\* __aenter__
Enter ==
    /\ lPc = "out"
    /\ Len(lCalls) < MaxLifeCalls
    /\ start_effect
    /\ lPc' = "body"
    /\ lCalls' = Append(lCalls, "enter")
    /\ UNCHANGED <<callVars, sessVars, baseVars, laterVars>>

\* __aexit__(exc_type, exc_val, exc_tb): the body ended or raised exc
Exit(exc) ==
    /\ lPc = "body"
    /\ stop_effect
    /\ lPc' = "out"
    /\ lCalls' = Append(lCalls, IF exc = "None" THEN "exit" ELSE "exit_raised")
    /\ UNCHANGED <<callVars, sessVars, baseVars, laterVars>>


(***************************************************************************)
(* DatabaseManager.get_session.  sEvents lists what the manager and the    *)
(* sessions did: [session, ev, exc].                                       *)
(***************************************************************************)
\* get_session calls in one behaviour
MaxSessions == 4

\* what the body of the session block can end with
BodyEnds == {"None", "ValueError", "RequestError", "CancelledError"}

Event(k, ev, exc) == [session |-> k, ev |-> ev, exc |-> exc]

SessIdle ==
    /\ session_factory = FALSE
    /\ sPc = "off"
    /\ sOpen = {}
    /\ sCalls = 0
    /\ sEvents = <<>>

\* __init__: self.session_factory = None
SessInit ==
    /\ session_factory = FALSE
    /\ sPc = "idle"
    /\ sOpen = {}
    /\ sCalls = 0
    /\ sEvents = <<>>

\* if not self.session_factory
session_factory_unset(factory) == ~factory

\* a handler that rolls back on nothing
rolls_back_never(exc) == FALSE

\* except Exception: await session.rollback(); raise
rolls_back(exc) == exc # "None" /\ except_Exception(exc)

\* DatabaseManager.initialize
Initialize ==
    /\ sPc = "idle"
    /\ ~session_factory
    /\ session_factory' = TRUE
    /\ UNCHANGED <<sPc, sOpen, sCalls, sEvents, callVars, lifeVars, baseVars, laterVars>>

\* async with db_manager.get_session() as session: up to the yield
GetSession ==
    /\ sPc = "idle"
    /\ sCalls < MaxSessions
    /\ sCalls' = sCalls + 1
    /\ IF session_factory_unset(session_factory)
       THEN /\ sEvents' = Append(sEvents, Event(sCalls + 1, "raise", "RuntimeError"))
            /\ UNCHANGED <<sPc, sOpen>>
       ELSE /\ sEvents' = Append(sEvents, Event(sCalls + 1, "open", "None"))
            /\ sOpen' = sOpen \cup {sCalls + 1}
            /\ sPc' = "body"
    /\ UNCHANGED <<session_factory, callVars, lifeVars, baseVars, laterVars>>

\* the body ends with `end`: the except clause, the finally clause, and
\* the exception going on to the caller
LeaveBody(end) ==
    /\ sPc = "body"
    /\ sEvents' = sEvents
           \o (IF rolls_back(end) THEN <<Event(sCalls, "rollback", end)>> ELSE <<>>)
           \o <<Event(sCalls, "close", end)>>
           \o (IF end # "None" THEN <<Event(sCalls, "raise", end)>> ELSE <<>>)
    /\ sOpen' = sOpen \ {sCalls}
    /\ sPc' = "idle"
    /\ UNCHANGED <<session_factory, sCalls, callVars, lifeVars, baseVars, laterVars>>


(***************************************************************************)
(* WebScraper._find_doc_links on one page.                                 *)
(***************************************************************************)
\* the <a href> elements a page is made of; i is the element's position,
\* spelled in its href
DocTextLink(i) == [href |-> <<"/", "start", "/", ToString(i)>>, text |-> "Docs"]
DocHrefLink(i) == [href |-> <<"/", "api", "/", ToString(i)>>, text |-> ""]
OtherLink(i) == [href |-> <<"/", "about", "/", ToString(i)>>, text |-> "About"]

LinkKinds == {"text", "href", "other"}

LinkOf(kind, i) ==
    IF kind = "text" THEN DocTextLink(i)
    ELSE IF kind = "href" THEN DocHrefLink(i)
    ELSE OtherLink(i)

\* the pages: up to three links of any kind, then a run of documentation
\* links, then one more link of any kind
Pages ==
    {[i \in 1..(Len(head) + run + 1) |->
        IF i <= Len(head) THEN LinkOf(head[i], i)
        ELSE IF i <= Len(head) + run THEN DocTextLink(i)
        ELSE LinkOf(last, i)] :
     head \in UNION {[1..n -> LinkKinds] : n \in 0..3},
     run \in {0, 7, 9, 10, 11},
     last \in LinkKinds}

LinksInit ==
    /\ callArgs \in [links : Pages, base_url : {WEB_SITE}]
    /\ callPc = "called"
    /\ callResult = <<>>

FindDocLinks ==
    /\ callPc = "called"
    /\ callArgs \in [links : Pages, base_url : {WEB_SITE}]
    /\ callResult' = WebScraper_find_doc_links(callArgs.links, callArgs.base_url)
    /\ callPc' = "returned"
    /\ UNCHANGED <<callArgs, lifeVars, sessVars, baseVars, laterVars>>

(***************************************************************************)
(* WebScraper._check_doc_subdomains on one project URL.                    *)
(***************************************************************************)
\* a project URL without www.
PLAIN_SITE == <<"https://", "example.com">>

ProbeAnswers == {"200", "404", "exc"}

SubdomainsInit ==
    /\ callArgs \in [project_url : {WEB_SITE, PLAIN_SITE},
                     sub : [{doc_subdomains[i] : i \in 1..Len(doc_subdomains)} -> ProbeAnswers]]
    /\ callPc = "called"
    /\ callResult = <<>>

CheckDocSubdomainsCall ==
    /\ callPc = "called"
    /\ "project_url" \in DOMAIN callArgs
    /\ callResult' = check_doc_subdomains_call(callArgs.project_url, callArgs)
    /\ callPc' = "returned"
    /\ UNCHANGED <<callArgs, lifeVars, sessVars, baseVars, laterVars>>


(***************************************************************************)
(* CoinGeckoCollector.collect_projects page by page.  The market-data API  *)
(* answers (page p, per_page n) with the coins ranked (p-1)*n+1 .. p*n;    *)
(* a coin is its rank.                                                     *)
(***************************************************************************)
\* GET /coins/markets?order=market_cap_desc&per_page=n&page=p
coins_markets(p, n) == [i \in 1..n |-> (p - 1) * n + i]

\* the limits asked for: below, at and above the page size
ProjectLimits == {1, 2, 3, 100, 249, 250, 251, 300, 499, 500, 501, 750}

\* the page whose request fails after its retries; 0: none fails
FailingPages == {0, 1, 2, 3}

CollectInit ==
    /\ callArgs \in [limit : ProjectLimits, fail_page : FailingPages]
    /\ callPc = "loop"
    /\ callResult = [page |-> 1, projects |-> <<>>]

\* one pass of `for page in range(1, pages_needed + 1)`: the request, the
\* conversion of its coins, or the break of the exception handler
CollectPage ==
    /\ callPc = "loop"
    /\ "limit" \in DOMAIN callArgs
    /\ callResult.page <= pages_needed(callArgs.limit)
    /\ LET n == current_limit("coingecko", callArgs.limit, Len(callResult.projects)) IN
       IF callResult.page = callArgs.fail_page
       THEN /\ callPc' = "returned"
            /\ callResult' = callResult
       ELSE /\ callPc' = "loop"
            /\ callResult' = [page |-> callResult.page + 1,
                              projects |-> callResult.projects
                                               \o coins_markets(callResult.page, n)]
    /\ UNCHANGED <<callArgs, lifeVars, sessVars, baseVars, laterVars>>

\* the range is exhausted: return projects
ReturnProjects ==
    /\ callPc = "loop"
    /\ "limit" \in DOMAIN callArgs
    /\ callResult.page > pages_needed(callArgs.limit)
    /\ callPc' = "returned"
    /\ UNCHANGED <<callArgs, callResult, lifeVars, sessVars, baseVars, laterVars>>

UnitIdle == CallIdle /\ LifeIdle /\ SessIdle

RestIdle == CleanIdle /\ DiscoverIdle /\ RateIdle /\ PersistIdle /\ ToolIdle /\ UnitIdle

baseIdle == ClassifyIdle /\ FetchIdle /\ PoolIdle /\ RunIdle

laterIdle == CleanIdle /\ DiscoverIdle /\ RateIdle /\ PersistIdle /\ ToolIdle

(***************************************************************************)
(* The specifications.                                                     *)
(***************************************************************************)
Init == ClassifyIdle /\ FetchIdle /\ PoolIdle /\ RunInit /\ RestIdle

Next ==
    \/ StartRun
    \/ \E world \in GitHubWorlds \cup WebWorlds : Discover(world)
    \/ Deduplicate
    \/ FetchAny
    \/ ReturnOutcomes

Spec == Init /\ [][Next]_vars

InitClassify == ClassifyInit /\ FetchIdle /\ PoolIdle /\ RunIdle /\ RestIdle

NextClassify == Classify

SpecClassify == InitClassify /\ [][NextClassify]_vars

InitFetch == ClassifyIdle /\ FetchInit /\ PoolIdle /\ RunIdle /\ RestIdle

NextFetch ==
    \/ Start
    \/ Stop
    \/ \E kind \in Kinds : Call(kind)
    \/ \E resp \in Responses : Attempt(resp)
    \/ Sleep

SpecFetch == InitFetch /\ [][NextFetch]_vars

InitPool == ClassifyIdle /\ FetchIdle /\ PoolInit /\ RunIdle /\ RestIdle

NextPool ==
    \/ \E s \in Scrapers : Request(s)
    \/ \E s \in Scrapers : Respond(s)
    \/ \E s \in Scrapers : PoolTimeout(s)

SpecPool == InitPool /\ [][NextPool]_vars

InitClean == ClassifyIdle /\ FetchIdle /\ PoolIdle /\ RunIdle /\ CleanInit /\ DiscoverIdle /\ RateIdle /\ PersistIdle /\ ToolIdle /\ UnitIdle

NextClean == CleanOnce \/ CleanAgain

SpecClean == InitClean /\ [][NextClean]_vars

InitDiscover == ClassifyIdle /\ FetchIdle /\ PoolIdle /\ RunIdle /\ CleanIdle /\ DiscoverInit /\ RateIdle /\ PersistIdle /\ ToolIdle /\ UnitIdle

NextDiscover ==
    \/ ExtractOwnerRepo
    \/ FindReadmeFiles
    \/ FindDocsDirectory
    \/ CheckWiki
    \/ FetchMainPage
    \/ CheckDocSubdomains

SpecDiscover == InitDiscover /\ [][NextDiscover]_vars

InitRate ==
    ClassifyIdle /\ FetchIdle /\ PoolIdle /\ RunIdle /\ CleanIdle /\ DiscoverIdle /\ RateInit /\ PersistIdle /\ ToolIdle /\ UnitIdle

NextRate ==
    \/ NextIteration
    \/ CollectorRequestAny
    \/ Backoff
    \/ RateLimit
    \/ \E kind \in ReadmeKinds, took \in RequestTimes : ReadmeProbe(kind, took)

SpecRate == InitRate /\ [][NextRate]_vars

InitPersist ==
    /\ ClassifyIdle /\ FetchIdle /\ PoolIdle /\ RunIdle
    /\ CleanIdle /\ DiscoverIdle /\ RateIdle /\ PersistInit /\ ToolIdle /\ UnitIdle

NextPersist ==
    \/ \E url \in PersistUrls, body \in Bodies : OpenSession(url, body)
    \/ WriteDocument
    \/ WriteRecord
    \/ Commit
    \/ \E exc \in {"RequestError", "CancelledError"} : Abandon(exc)

SpecPersist == InitPersist /\ [][NextPersist]_vars

InitTool ==
    /\ ClassifyIdle /\ FetchIdle /\ PoolIdle /\ RunIdle
    /\ CleanIdle /\ DiscoverIdle /\ RateIdle /\ PersistIdle /\ ToolInit /\ UnitIdle

NextTool == SearchCryptoProjects

SpecTool == InitTool /\ [][NextTool]_vars



InitTitle == baseIdle /\ laterIdle /\ TitleInit /\ LifeIdle /\ SessIdle

NextTitle == ExtractTitle

SpecTitle == InitTitle /\ [][NextTitle]_vars

InitLifecycle == baseIdle /\ laterIdle /\ CallIdle /\ LifeInit /\ SessIdle

NextLifecycle ==
    \/ LifeStart
    \/ LifeStop
    \/ Enter
    \/ \E exc \in {"None", "RuntimeError"} : Exit(exc)

SpecLifecycle == InitLifecycle /\ [][NextLifecycle]_vars

InitSession == baseIdle /\ laterIdle /\ CallIdle /\ LifeIdle /\ SessInit

NextSession ==
    \/ Initialize
    \/ GetSession
    \/ \E end \in BodyEnds : LeaveBody(end)

SpecSession == InitSession /\ [][NextSession]_vars



InitLinks == baseIdle /\ laterIdle /\ LinksInit /\ LifeIdle /\ SessIdle

NextLinks == FindDocLinks

SpecLinks == InitLinks /\ [][NextLinks]_vars

InitSubdomains == baseIdle /\ laterIdle /\ SubdomainsInit /\ LifeIdle /\ SessIdle

NextSubdomains == CheckDocSubdomainsCall

SpecSubdomains == InitSubdomains /\ [][NextSubdomains]_vars



InitCollect == baseIdle /\ laterIdle /\ CollectInit /\ LifeIdle /\ SessIdle

NextCollect == CollectPage \/ ReturnProjects

SpecCollect == InitCollect /\ [][NextCollect]_vars


(***************************************************************************)
(* Properties.                                                             *)
(***************************************************************************)
RecordInvariant(r) ==
    r.changes_detected = (r.old_hash # NoHash /\ r.old_hash # r.new_hash)

\* C1: every UpdateRecord, as stored and as check_updates returns it, has
\* changes_detected = (old_hash is not None and old_hash != new_hash).
C1_ChangesDetectedInvariant ==
    /\ \A i \in 1..Len(updateRecords) : RecordInvariant(updateRecords[i])
    /\ \A limit \in Limits :
          LET updates == check_updates(updateRecords, limit).updates IN
          \A i \in 1..Len(updates) : RecordInvariant(updates[i])

\* a first record (nothing to compare) and a record of a detected change exist
C1_Witness ==
    \E i, j \in 1..Len(updateRecords) :
        /\ updateRecords[i].old_hash = NoHash
        /\ updateRecords[j].changes_detected

RecordsOf(url) == SelectSeq(updateRecords, LAMBDA r : r.documentation_id = url)

RecordedUrls == {updateRecords[i].documentation_id : i \in 1..Len(updateRecords)}

\* C2: a document's first UpdateRecord has old_hash = None and
\* changes_detected = False; every later one has old_hash equal to the
\* new_hash of the record before it, and changes_detected exactly when the
\* two hashes differ.
C2_ChangeDetectionLaw ==
    \A url \in RecordedUrls :
        LET rs == RecordsOf(url) IN
        /\ rs[1].old_hash = NoHash
        /\ ~rs[1].changes_detected
        /\ \A k \in 2..Len(rs) :
              /\ rs[k].old_hash = rs[k - 1].new_hash
              /\ rs[k].changes_detected = (rs[k].new_hash # rs[k - 1].new_hash)

\* a document scraped with h1 and later with a differing h2
C2_Witness ==
    \E url \in RecordedUrls :
        LET rs == RecordsOf(url) IN
        /\ Len(rs) >= 2
        /\ rs[2].old_hash = rs[1].new_hash
        /\ rs[2].new_hash # rs[1].new_hash
        /\ rs[2].changes_detected

Successes == SelectSeq(outcomes, LAMBDA o : o.status = "success")

\* C3: the UpdateRecords a run has added are, one for one and in order, its
\* successful ScrapeOutcomes; a failed candidate adds none.
C3_OneRecordPerSuccessfulScrape ==
    runPc \in {"fetching", "done"} =>
        /\ Len(updateRecords) - runBase = Len(Successes)
        /\ \A k \in 1..Len(Successes) :
              /\ runBase + k <= Len(updateRecords)
              /\ updateRecords[runBase + k].documentation_id = Successes[k].url
              /\ updateRecords[runBase + k].new_hash = Successes[k].hash
        /\ \A i \in 1..Len(outcomes) :
              outcomes[i].status = "failed" =>
                  \A k \in (runBase + 1)..Len(updateRecords) :
                      updateRecords[k].documentation_id # outcomes[i].url

\* a finished run with a failed candidate and with a successful scrape of
\* unchanged content, which still got its record
C3_Witness ==
    /\ runPc = "done"
    /\ \E i \in 1..Len(outcomes) : outcomes[i].status = "failed"
    /\ \E k \in (runBase + 1)..Len(updateRecords) :
          /\ updateRecords[k].old_hash = updateRecords[k].new_hash
          /\ ~updateRecords[k].changes_detected

UrlsOf(cands) == {cands[i].url : i \in 1..Len(cands)}

NoDuplicates(seq) == \A i, j \in 1..Len(seq) : i < j => seq[i] # seq[j]

\* C4: within a run no URL is fetched twice; the candidates left to fetch
\* hold no URL twice and none already fetched; a finished run has made one
\* fetch per distinct discovered URL.
C4_NoUrlFetchedTwice ==
    /\ NoDuplicates(fetches)
    /\ runPc = "fetching" =>
          /\ NoDuplicates([i \in 1..Len(candidates) |-> candidates[i].url])
          /\ UrlsOf(candidates) \cap {fetches[i] : i \in 1..Len(fetches)} = {}
    /\ runPc = "done" => Len(fetches) = Cardinality(UrlsOf(discovered))

\* candidates [B, A, A]: three discovered, two fetches
C4_Witness ==
    /\ runPc = "done"
    /\ Len(discovered) = 3
    /\ discovered[2].url = discovered[3].url
    /\ Len(fetches) = 2

\* C5: a failed outcome carries no content and no hash, and a finished run
\* holds exactly one outcome for every deduplicated candidate.
C5_FailureDoesNotAbortBatch ==
    /\ \A i \in 1..Len(outcomes) :
          outcomes[i].status = "failed" =>
              outcomes[i].content = NoContent /\ outcomes[i].hash = NoHash
    /\ runPc = "done" =>
          /\ Len(outcomes) = Cardinality(UrlsOf(discovered))
          /\ \A u \in UrlsOf(discovered) :
                Cardinality({i \in 1..Len(outcomes) : outcomes[i].url = u}) = 1

\* a candidate fetched successfully after another one of the run failed
C5_Witness ==
    /\ runPc = "done"
    /\ \E i, j \in 1..Len(outcomes) :
          /\ i < j
          /\ outcomes[i].status = "failed"
          /\ outcomes[j].status = "success"

Accepted(url) == GitHubScraper_can_scrape(url) \/ WebScraper_can_scrape(url)

AnyAccepted == \E u \in {project.github_repo, project.website} \ {NoUrl} : Accepted(u)

\* C6: a run has raised exactly when no adapter accepts any known URL of
\* the project; a run that selected an adapter is never in the raised state.
C6_RaisesIffNoAdapter ==
    /\ runPc = "raised" => ~AnyAccepted
    /\ runPc \in {"discovering", "fetching", "done"} => AnyAccepted

\* the project has a website, and no adapter accepts it
C6_Witness ==
    /\ runPc = "raised"
    /\ project.website # NoUrl

\* C7 as stated: for every URL string exactly one adapter accepts.
C7_AdapterPartition ==
    cPc = "classified" => (cGithub /\ ~cWeb) \/ (~cGithub /\ cWeb)

\* C7 amended: never both; exactly one for a URL that starts with http://
\* or https://.
C7_AdapterPartitionHttp ==
    cPc = "classified" =>
        /\ ~(cGithub /\ cWeb)
        /\ StartsWithHttp(cUrl) => (cGithub \/ cWeb)

\* an http(s) URL the repository adapter rejects and the website adapter takes
C7_Witness ==
    /\ cPc = "classified"
    /\ StartsWithHttp(cUrl)
    /\ ~cGithub
    /\ cWeb

\* C8: at most three requests; an attempt follows only failed attempts; a
\* successful attempt ends the call; the call raises only after three failed
\* attempts.
C8_BoundedRetry ==
    /\ Len(fRequests) <= 3
    /\ Len(fOutcomes) <= 3
    /\ \A k \in 1..(Len(fOutcomes) - 1) : fOutcomes[k] # "ok"
    /\ fPc = "returned" => fOutcomes # <<>> /\ fOutcomes[Len(fOutcomes)] = "ok"
    /\ (fOutcomes # <<>> /\ fOutcomes[Len(fOutcomes)] = "ok") => fPc = "returned"
    /\ fPc = "raised" =>
          /\ Len(fOutcomes) = 3
          /\ \A k \in 1..3 : fOutcomes[k] # "ok"
          /\ fError.type = "RetryError"

\* a call that raised after three requests
C8_Witness ==
    /\ fPc = "raised"
    /\ Len(fRequests) = 3

\* a 4xx other than 429; for make_request also a body that is not JSON
NonTransient(kind, resp) ==
    resp = "http404" \/ (resp = "malformed" /\ kind = "collector")

\* C9 as stated: a call whose first attempt met a non-transient failure has
\* made that one attempt only, has not waited, and has raised the underlying
\* error.
C9_NonTransientFailsImmediately ==
    (/\ fOutcomes # <<>>
     /\ fOutcomes[1] # "RuntimeError"
     /\ fRequests # <<>>
     /\ NonTransient(fKind, fRequests[1]))
    => /\ fPc = "raised"
       /\ Len(fOutcomes) = 1
       /\ fWaits = <<>>
       /\ fError.type = fOutcomes[1]

\* C10 as stated: the requests in flight never exceed the configured
\* max_concurrent_scrapes.
C10_InFlightWithinConfiguredMax ==
    inFlight["GitHub"] + inFlight["Web"] <= max_concurrent_scrapes

\* C15 as stated: clean_content applied to its own output returns it
\* unchanged, truncated inputs included.
C15_NormalizeIdempotent ==
    nPc = "twice" => nTwice = nOnce

RECURSIVE FoundBy(_)
\* what the strategies run so far returned, in the order they ran
FoundBy(ran) == IF ran = <<>> THEN <<>> ELSE Head(ran).docs \o FoundBy(Tail(ran))

MainPageFailed == dAdapter = "Web" /\ ~fetch_content(TRUE, dWorld.main).ok

\* C12: discover_docs never ends in an exception, and the list it holds is
\* at every moment what the strategies run so far have found.
C12_DiscoverNeverRaises ==
    /\ dPc # "raised"
    /\ dDocs = FoundBy(dRan)

\* the main page could not be fetched, and discover_docs returned
C12_Witness ==
    /\ dPc = "returned"
    /\ MainPageFailed
    /\ Len(dProbes) = StopAttempts

SubdomainUrl(subdomain) == <<"https://", subdomain, ".">> \o RootDomain(dUrl)

DocUrls == {dDocs[k].url : k \in 1..Len(dDocs)}

\* C13 as stated: whatever happens to the main page, every documentation
\* subdomain that answers 200 is returned, and the links of a fetched main
\* page are returned whatever the subdomains answer.
C13_WebStrategiesIndependent ==
    (dPc = "returned" /\ dAdapter = "Web") =>
        /\ \A i \in 1..Len(doc_subdomains) :
              dWorld.sub[doc_subdomains[i]] = "200" =>
                  SubdomainUrl(doc_subdomains[i]) \in DocUrls
        /\ ~MainPageFailed =>
              \A l \in 1..Len(WebScraper_find_doc_links(dWorld.links, dUrl)) :
                  WebScraper_find_doc_links(dWorld.links, dUrl)[l].url \in DocUrls

HasOwnerAndRepo ==
    LET or == GitHubScraper_extract_owner_repo(dUrl) IN or[1] # <<>> /\ or[2] # <<>>

Answered200(names, answers) == {i \in 1..Len(names) : answers[names[i]].kind = "200"}

DocTypes == {dDocs[k].type : k \in 1..Len(dDocs)}

\* C14: the repository strategies run in the order readme, docs directory,
\* wiki; all three run whatever the earlier ones met; the list keeps what
\* each found.
C14_RepositoryStrategiesIndependent ==
    dAdapter = "GitHub" =>
        /\ \A k \in 1..Len(dRan) : dRan[k].strategy = <<"readme", "docs_dir", "wiki">>[k]
        /\ dDocs = FoundBy(dRan)
        /\ (dPc = "returned" /\ HasOwnerAndRepo) =>
              /\ Len(dRan) = 3
              /\ <<"wiki", "wiki">> = dProbes[Len(dProbes)]
              /\ ("wiki" \in DocTypes) = (dWorld.wiki = "200")
              /\ ("readme" \in DocTypes) = (Answered200(readme_names, dWorld.readme) # {})

\* no readme answered 200, the first docs directory probe raised, and the
\* wiki was still probed and found
C14_Witness ==
    /\ dPc = "returned"
    /\ dAdapter = "GitHub"
    /\ HasOwnerAndRepo
    /\ Answered200(readme_names, dWorld.readme) = {}
    /\ dWorld.dirs["docs"].kind = "exc"
    /\ dRan[1].docs = <<>>
    /\ dRan[2].docs = <<>>
    /\ DocTypes = {"wiki"}

ProbesOf(strategy) ==
    LET ps == SelectSeq(dProbes, LAMBDA pr : pr[1] = strategy) IN
    [k \in 1..Len(ps) |-> ps[k][2]]

Least(set) == CHOOSE i \in set : \A j \in set : i <= j

\* C19: the readme probes follow readme_names in order and stop at the
\* first name answered with a file; that name is the only candidate, and
\* there is none when no name is answered so.
C19_ReadmeFirstExisting ==
    (dAdapter = "GitHub" /\ dRan # <<>>) =>
        LET docs == dRan[1].docs
            probes == ProbesOf("readme")
            found == Answered200(readme_names, dWorld.readme)
        IN /\ Len(probes) \in 1..Len(readme_names)
           /\ probes = SubSeq(readme_names, 1, Len(probes))
           /\ Len(docs) <= 1
           /\ IF found = {}
              THEN docs = <<>> /\ Len(probes) = Len(readme_names)
              ELSE /\ Len(docs) = 1
                   /\ docs[1].title = <<readme_names[Least(found)]>>
                   /\ docs[1].url = dWorld.readme[readme_names[Least(found)]].download_url
                   /\ Len(probes) = Least(found)

\* README.md is absent, README.rst and README.txt exist: README.rst alone
\* is returned and README.txt is not requested
C19_Witness ==
    /\ dAdapter = "GitHub"
    /\ dRan # <<>>
    /\ dWorld.readme["README.md"].kind = "404"
    /\ dWorld.readme["README.rst"].kind = "200"
    /\ dWorld.readme["README.txt"].kind = "200"
    /\ Len(dRan[1].docs) = 1
    /\ ProbesOf("readme") = <<"README.md", "README.rst">>

Existing(dirs) == {i \in 1..Len(doc_dirs) : dirs[doc_dirs[i]].kind \in {"200list", "200dict"}}

\* the titles of the documentation files among the well-formed entries
DocFileTitles(dir, items) ==
    {<<dir, "/">> \o items[k].name :
        k \in {j \in 1..Len(items) :
                  /\ items[j].wellformed
                  /\ items[j].type = "file"
                  /\ GitHubScraper_is_doc_file(items[j].name)}}

\* C20 as stated: the docs-directory candidates all come from the first
\* existing directory of doc_dirs and are its documentation files, also
\* when an entry of a listing is malformed.
C20_OneDocsDirectory ==
    (dAdapter = "GitHub" /\ Len(dRan) >= 2) =>
        LET docs == dRan[2].docs
            existing == Existing(dWorld.dirs)
        IN IF existing = {} THEN docs = <<>>
           ELSE LET dir == doc_dirs[Least(existing)] IN
                /\ \A k \in 1..Len(docs) : docs[k].title[1] = dir
                /\ DocFileTitles(dir, dWorld.dirs[dir].items)
                      = {docs[k].title : k \in 1..Len(docs)}

\* the least delay the claim names for a source
MinDelay(source) == IF source = "api.coingecko.com" THEN CoinGeckoDelay ELSE GitHubDelay

Spaced(calls) ==
    \A i \in 1..(Len(calls) - 1) :
        calls[i + 1].at - calls[i].at >= MinDelay(calls[i].source)

\* C11 as stated: two consecutive requests to the same source are at least
\* the source's delay apart, in the collectors and in the discovery probes.
C11_MinimumDelayBetweenCalls == Spaced(rCalls)

\* C16: no two Document rows of the store have the same (project, url).
C16_DocumentsUnique ==
    \A i, j \in 1..Len(documents) :
        i # j => <<documents[i].project_id, documents[i].url>>
                    # <<documents[j].project_id, documents[j].url>>

\* a URL scraped in two runs, held by one Document row
C16_Witness ==
    /\ runNo = 2
    /\ \E url \in RecordedUrls :
          /\ Len(RecordsOf(url)) = 2
          /\ Cardinality({i \in 1..Len(documents) : documents[i].url = url}) = 1

DocumentUrls == {documents[i].url : i \in 1..Len(documents)}

C18_SupportedBlockchainAccepted ==
    (tPc = "answered" /\ tParams.blockchain \in BlockchainNetwork) =>
        tAnswer.kind # "Invalid blockchain"


\* the first heading within the first TitleLines lines, <<"None">> if none
FirstHeading(content) ==
    IF content = <<>> THEN <<"None">>
    ELSE HeadingFrom(Take(SplitOn(content, "\n"), TitleLines), 1)

\* the URL's last path segment, <<>> if the path has none
LastSegment(url) == LET parts == path_parts(url) IN parts[Len(parts)]

\* C21 as stated: the title is the first markdown heading of the first 10
\* lines when there is one, else the URL's last path segment when there is
\* one, else 'Documentation'.
C21_TitlePrefersHeading ==
    callPc = "returned" =>
        callResult =
            IF FirstHeading(callArgs.content) # <<"None">>
            THEN FirstHeading(callArgs.content)
            ELSE IF LastSegment(callArgs.url) # <<>>
            THEN LastSegment(callArgs.url)
            ELSE <<"Documentation">>


\* the text after the lines are stripped and rejoined and the runs of
\* newlines collapsed: what the length test of clean_content looks at
Cleaned(content) ==
    IF content = <<>> THEN <<>>
    ELSE CollapseNewlines(JoinWith(StripLines(SplitOn(content, "\n")), "\n"))

\* C22 as stated: a cleaned text longer than max_length is returned as its
\* first max_length characters followed by the marker, a shorter one as it
\* is, and the result is never longer than max_length plus the marker.
C22_TruncationExact ==
    nPc # "input" =>
        LET c == Cleaned(nContent) IN
        /\ nOnce = IF Len(c) > nMax THEN Take(c, nMax) \o TruncationMarker ELSE c
        /\ Len(nOnce) <= nMax + Len(TruncationMarker)

\* C22, amended: the result is stripped as a whole after the cut.  A cleaned
\* text longer than max_length gives its first max_length characters
\* without their leading whitespace, followed by the marker (the marker
\* alone, without its two newlines, when those characters are all
\* whitespace); a shorter one gives the cleaned text stripped, which holds
\* no marker; the result is never longer than max_length plus the marker.
C22_TruncationStripped ==
    nPc # "input" =>
        LET c == Cleaned(nContent)
            kept == LStrip(Take(c, nMax), Whitespace)
        IN /\ Len(c) > nMax =>
                nOnce = IF kept # <<>> THEN kept \o TruncationMarker
                        ELSE SubSeq(TruncationMarker, 3, Len(TruncationMarker))
           /\ Len(c) <= nMax =>
                /\ nOnce = StripSet(c, Whitespace)
                /\ ~ContainsSeq(nOnce, SubSeq(TruncationMarker, 3, Len(TruncationMarker)))
           /\ Len(nOnce) <= nMax + Len(TruncationMarker)

\* a text cut after a leading blank line: the result is not the first
\* max_length characters followed by the marker
C22_Witness ==
    /\ nPc = "once"
    /\ Len(Cleaned(nContent)) > nMax
    /\ nOnce # Take(Cleaned(nContent), nMax) \o TruncationMarker
    /\ Len(nOnce) > Len(TruncationMarker) - 2

\* C23 as stated: the result of clean_content never holds three or more
\* newlines in a row, and none of its lines starts or ends with whitespace,
\* for every input and every max_length.
C23_NoThreeNewlines ==
    nPc # "input" =>
        /\ ~ContainsSeq(nOnce, <<"\n", "\n", "\n">>)
        /\ \A i \in 1..Len(SplitOn(nOnce, "\n")) :
              LET line == SplitOn(nOnce, "\n")[i] IN line = StripSet(line, Whitespace)


\* the elements of a page that are documentation links, in page order
RECURSIVE Matching(_)
Matching(links) ==
    IF links = <<>> THEN <<>>
    ELSE (IF MatchesDocPattern(Head(links).text) \/ HrefMatches(Head(links).href)
          THEN <<Head(links)>> ELSE <<>>) \o Matching(Tail(links))

\* C24: link discovery returns at most 10 candidates: the first 10 (or all,
\* if fewer) documentation links of the page, in page order.
C24_FirstTenDocLinks ==
    callPc = "returned" =>
        LET expected == Take(Matching(callArgs.links), 10) IN
        /\ Len(callResult) <= 10
        /\ Len(callResult) = Len(expected)
        /\ \A i \in 1..Len(expected) :
              callResult[i].url = urljoin(callArgs.base_url, expected[i].href)

\* a page with more than 10 documentation links after a link that is none
C24_Witness ==
    /\ callPc = "returned"
    /\ "links" \in DOMAIN callArgs
    /\ Len(Matching(callArgs.links)) > 10
    /\ Len(callArgs.links) > Len(Matching(callArgs.links))
    /\ Len(callResult) = 10

\* the prefixes whose probe answered 200, from the i-th on
RECURSIVE Reachable(_, _)
Reachable(sub, i) ==
    IF i > Len(doc_subdomains) THEN <<>>
    ELSE (IF sub[doc_subdomains[i]] = "200" THEN <<doc_subdomains[i]>> ELSE <<>>)
            \o Reachable(sub, i + 1)

\* C25: every prefix of the list is probed on the domain without its
\* leading 'www.', and the candidates are the prefixes that answered 200,
\* one each, in list order, whatever the other probes did.
C25_EveryPrefixProbed ==
    callPc = "returned" =>
        LET expected == Reachable(callArgs.sub, 1) IN
        /\ ~callResult.raised
        /\ callResult.probes = [i \in 1..Len(doc_subdomains) |-> <<"subdomains", doc_subdomains[i]>>]
        /\ Len(callResult.docs) = Len(expected)
        /\ \A i \in 1..Len(expected) :
              callResult.docs[i].url = <<"https://", expected[i], ".", "example.com">>

\* a failing probe before a prefix that answers, on a www. URL
C25_Witness ==
    /\ callPc = "returned"
    /\ "sub" \in DOMAIN callArgs
    /\ callArgs.project_url = WEB_SITE
    /\ callArgs.sub["docs"] = "exc"
    /\ callArgs.sub["dev"] = "404"
    /\ callArgs.sub["api"] = "200"
    /\ Len(callResult.docs) >= 1


\* C26 as stated: every candidate the repository adapter discovers is
\* accepted by the repository adapter's own can_scrape.
C26_DiscoveredAcceptedByRepositoryAdapter ==
    dAdapter = "GitHub" =>
        \A i \in 1..Len(dDocs) : GitHubScraper_can_scrape(dDocs[i].url)


\* C27 as stated: collect_projects returns at most limit projects, none
\* twice, and the top-limit coins when every page succeeds.
C27_TopLimitCoins ==
    callPc = "returned" =>
        /\ Len(callResult.projects) <= callArgs.limit
        /\ NoDuplicates(callResult.projects)
        /\ callArgs.fail_page \notin 1..pages_needed(callArgs.limit) =>
              callResult.projects = [i \in 1..callArgs.limit |-> i]


\* C28: an attempt of fetch_content (or make_request) made while the object
\* has no client, never started or stopped, raises the 'not started'
\* RuntimeError and sends nothing; requests are sent by no other attempts;
\* and a call none of whose attempts found a client fails, with that error
\* as its cause and no request sent.
C28_NotStartedFailsWithoutRequest ==
    /\ [](/\ Len(fRequests) =
                 Cardinality({k \in 1..Len(fOutcomes) : fOutcomes[k] # "RuntimeError"})
          /\ (/\ fPc \in {"returned", "raised"}
              /\ \A k \in 1..Len(fOutcomes) : fOutcomes[k] = "RuntimeError")
             => /\ fPc = "raised"
                /\ fError.last = "RuntimeError"
                /\ fRequests = <<>>)
    /\ [][(fPc = "attempt" /\ ~client /\ fOutcomes' # fOutcomes)
             => /\ fOutcomes' = Append(fOutcomes, "RuntimeError")
                /\ fRequests' = fRequests
                /\ fPc' # "returned"]_vars

\* a fetch on an object without client that has failed
C28_Witness ==
    /\ fPc = "raised"
    /\ ~client
    /\ fOutcomes = <<"RuntimeError", "RuntimeError", "RuntimeError">>
    /\ fRequests = <<>>


Last(seq) == seq[Len(seq)]

\* C29: the object holds at most one open client, the one in self.client;
\* after start or __aenter__ it holds one, after stop or __aexit__, the
\* body having raised or not, none, and every client created is closed.
C29_AtMostOneOpenClient ==
    /\ Cardinality(lOpen) <= 1
    /\ lOpen = (IF lClient = 0 THEN {} ELSE {lClient})
    /\ lOpen \subseteq 1..lCreated
    /\ (lCalls # <<>> /\ Last(lCalls) \in {"start", "enter"}) => lClient # 0
    /\ (lCalls # <<>> /\ Last(lCalls) \in {"stop", "exit", "exit_raised"}) =>
          lClient = 0 /\ lOpen = {}

\* start on a started object, stop on a stopped one, a second client, and
\* a body that raised
C29_Witness ==
    /\ \E i \in 1..(Len(lCalls) - 1) : lCalls[i] = "start" /\ lCalls[i + 1] = "start"
    /\ \E i \in 1..(Len(lCalls) - 1) : lCalls[i] = "stop" /\ lCalls[i + 1] = "enter"
    /\ Last(lCalls) = "exit_raised"
    /\ lCreated = 2
    /\ lOpen = {}

\* the events of session k, in order
EventsOf(k) == SelectSeq(sEvents, LAMBDA e : e.session = k)

Kinds_(events) == [i \in 1..Len(events) |-> events[i].ev]

=============================================================================
